---- MODULE Spec2Model ----
(***************************************************************************)
(* Model of the task orchestration core of gtasks-mcp (src/src/Tasks.ts):  *)
(* the single-item transfer (moveTask), the bulk reorganizer               *)
(* (reorganizeTasks), the batch executors and the collection enumerator    *)
(* (_list), running against the remote task service.                       *)
(*                                                                         *)
(* Every invocation is a frame inv[p]; an action is the stretch of a       *)
(* handler between two awaits, so each action issues exactly one remote    *)
(* call (or returns).  Remote calls are recorded in the history variable   *)
(* calls.  A remote call either fails (throws, leaving the remote state    *)
(* as it was) or acts on the remote state.                                 *)
(*                                                                         *)
(* Strings the code inspects character by character (titles, prefixes) are *)
(* sequences of one-character strings; identifiers of tasks are positive   *)
(* integers (0 = absent), identifiers of task lists are strings ("" =      *)
(* absent).                                                                *)
(***************************************************************************)
EXTENDS Integers, Sequences, FiniteSets, TLC

VARIABLES
    taskLists,   \* remote: the task lists, in the order tasklists.list returns them
    store,       \* remote: task list id -> sequence of tasks, in tasks.list order
    nextId,      \* remote: the identifier the next inserted task gets
    nextListId,  \* remote: index into NewListIds of the next inserted task list
    initial,     \* history: the remote state the run started from
    calls,       \* history: the remote calls issued so far, in order
    inv          \* the invocations: p -> frame (arguments, position, locals, result)

vars == <<taskLists, store, nextId, nextListId, initial, calls, inv>>

remoteVars == <<taskLists, store, nextId, nextListId>>

(***************************************************************************)
(* Bounds of the model.                                                    *)
(***************************************************************************)
MaxBatch == 3

MaxTasks == 2

MaxMappings == 2

MaxLists == 2

MaxPasses == 4

\* The number of tasks in the list the subtask operations work on.
MaxFamily == 4

(***************************************************************************)
(* Values.                                                                 *)
(***************************************************************************)
DefaultList == "@default"

NewListIds == <<"L1", "L2", "L3", "L4", "L5", "L6">>

NoTask == [id |-> 0, title |-> <<>>, notes |-> "", due |-> "", status |-> "", parent |-> 0]

NoBody == [none |-> TRUE]

NoRet == [kind |-> "none"]

\* A page token names the list that issued it and the position it stands for;
\* the program only passes it on.  NoToken is the absent (null) token.
NoToken == [list |-> "", offset |-> 0]

RECURSIVE RemoveAt(_, _)
RemoveAt(s, i) ==
    IF s = <<>> THEN <<>>
    ELSE IF i = 1 THEN Tail(s)
    ELSE <<Head(s)>> \o RemoveAt(Tail(s), i - 1)

(***************************************************************************)
(* The remote task service, as the handlers use it.                        *)
(***************************************************************************)
ListIds == {taskLists[i].id : i \in 1..Len(taskLists)}

\* "@default" denotes the user's default task list, the first one.
Resolve(tl) ==
    IF tl = DefaultList /\ taskLists # <<>> THEN taskLists[1].id ELSE tl

TasksOf(tl) == IF Resolve(tl) \in ListIds THEN store[Resolve(tl)] ELSE <<>>

HasTask(tl, t) == \E i \in 1..Len(TasksOf(tl)) : TasksOf(tl)[i].id = t

\* One remote call of the history.
Call(p, e, api, tl, t, body, parent, ok, data) ==
    [proc |-> p, elem |-> e, api |-> api, tasklist |-> tl, task |-> t,
     body |-> body, parent |-> parent, ok |-> ok, data |-> data]

CallsOf(p) == SelectSeq(calls, LAMBDA c : c.proc = p)

CallsOfElem(p, e) == SelectSeq(calls, LAMBDA c : c.proc = p /\ c.elem = e)

Apis(cs) == [i \in 1..Len(cs) |-> cs[i].api]

\* The calls that change the remote state.
MutatingApis ==
    {"tasks.insert", "tasks.delete", "tasks.update", "tasks.patch", "tasks.move",
     "tasks.clear", "tasklists.insert", "tasklists.update", "tasklists.delete"}

\* tasks.tasks.get: the task, or a failure (not found, or the call failed).
RemoteGet(tl, t) ==
    {[ok |-> FALSE, data |-> NoTask]}
    \cup {[ok |-> TRUE, data |-> TasksOf(tl)[i]] :
            i \in {j \in 1..Len(TasksOf(tl)) : TasksOf(tl)[j].id = t}}

\* The task the remote stores for an insert body.
NewTaskOf(id, body, parent) ==
    [id |-> id, title |-> body.title,
     notes |-> IF "notes" \in DOMAIN body THEN body.notes ELSE "",
     due |-> IF "due" \in DOMAIN body THEN body.due ELSE "",
     status |-> IF "status" \in DOMAIN body THEN body.status ELSE "needsAction",
     parent |-> parent]

\* tasks.tasks.insert: creates the task at the end of the list and returns it
\* with its new id; or fails; or answers without an id (nothing the caller can
\* refer to was created).
RemoteInsert(tl, body, parent) ==
    {[ok |-> FALSE, data |-> NoTask, store |-> store, nextId |-> nextId]}
    \cup (IF Resolve(tl) \in ListIds
          THEN {[ok |-> TRUE, data |-> NewTaskOf(nextId, body, parent),
                 store |-> [store EXCEPT ![Resolve(tl)] =
                                Append(@, NewTaskOf(nextId, body, parent))],
                 nextId |-> nextId + 1],
                [ok |-> TRUE, data |-> NoTask, store |-> store, nextId |-> nextId]}
          ELSE {})

\* tasks.tasks.delete: removes the task; fails when it is not there (or the call
\* failed).
RemoteDelete(tl, t) ==
    {[ok |-> FALSE, store |-> store]}
    \cup {[ok |-> TRUE, store |-> [store EXCEPT ![Resolve(tl)] = RemoveAt(@, i)]] :
            i \in {j \in 1..Len(TasksOf(tl)) : TasksOf(tl)[j].id = t}}

(***************************************************************************)
(* Result envelopes.  A text is the sequence of the values its template    *)
(* interpolates, each tagged with what it is.                              *)
(***************************************************************************)
Part(k, v) == [k |-> k, v |-> v]

Result(isError, template, text) ==
    [kind |-> "result", isError |-> isError, template |-> template, text |-> text]

Thrown(msg) == [kind |-> "thrown", isError |-> TRUE, template |-> msg, text |-> <<>>]

Mentions(ret, k, v) ==
    \E i \in 1..Len(ret.text) : ret.text[i].k = k /\ ret.text[i].v = v

(***************************************************************************)
(* Frames.                                                                 *)
(***************************************************************************)
Frame(op, args) ==
    [op |-> op, args |-> args, pc |-> "start", idx |-> 1,
     originalTask |-> NoTask, newTaskId |-> 0,
     results |-> <<>>, errors |-> <<>>, warnings |-> <<>>,
     lists |-> <<>>, allTasks |-> <<>>, movePlans |-> <<>>, items |-> <<>>,
     successCount |-> 0, failureCount |-> 0, nextPageToken |-> NoToken,
     ret |-> NoRet]

Procs == DOMAIN inv

Returned(p) == inv[p].pc = "done"

TransferBody_StatusAsIs(task) ==
    IF task.due = ""
    THEN [title |-> task.title, notes |-> task.notes, status |-> task.status]
    ELSE [title |-> task.title, notes |-> task.notes, due |-> task.due,
          status |-> task.status]

\* The body moveTask, batchMoveTasks and reorganizeTasks build for the copy.
TransferBody(task) ==
    IF task.due = ""
    THEN [title |-> task.title, notes |-> task.notes,
          status |-> IF task.status = "" THEN "needsAction" ELSE task.status]
    ELSE [title |-> task.title, notes |-> task.notes, due |-> task.due,
          status |-> IF task.status = "" THEN "needsAction" ELSE task.status]

(***************************************************************************)
(* moveTask (Tasks.ts 325-416).                                            *)
(***************************************************************************)
MoveTaskArgsMissing(a) ==
    a.sourceTaskListId = "" \/ a.targetTaskListId = "" \/ a.taskId = 0

GetSucceeded_NoTitleCheck(r) == r.ok

\* The source task was fetched and has a title (Tasks.ts 343-347).
GetSucceeded(r) == r.ok /\ r.data.title # <<>>

InsertSucceeded_NoIdCheck(r) == TRUE

\* The insert answered with the new task's id (Tasks.ts 367-371).
InsertSucceeded(r) == r.ok /\ r.data.id # 0

\* Validation, then step 1: get the task from the source list.
MoveTaskGet(p) ==
    LET f == inv[p] a == f.args IN
    /\ f.op = "moveTask" /\ f.pc = "start"
    /\ IF MoveTaskArgsMissing(a)
       THEN /\ inv' = [inv EXCEPT ![p] = [f EXCEPT !.pc = "done",
                         !.ret = Thrown("Source task list ID, target task list ID, and task ID are required")]]
            /\ UNCHANGED <<calls, remoteVars, initial>>
       ELSE \E r \in RemoteGet(a.sourceTaskListId, a.taskId) :
            /\ calls' = Append(calls, Call(p, 1, "tasks.get", a.sourceTaskListId,
                                           a.taskId, NoBody, 0, r.ok, r.data))
            /\ IF GetSucceeded(r)
               THEN inv' = [inv EXCEPT ![p] = [f EXCEPT !.pc = "insert",
                                                        !.originalTask = r.data]]
               ELSE inv' = [inv EXCEPT ![p] = [f EXCEPT !.pc = "done",
                         !.ret = Result(TRUE, "Error moving task",
                                   <<Part("msg", "Could not get source task")>>)]]
            /\ UNCHANGED <<remoteVars, initial>>

\* Step 2: create the task in the target list.
MoveTaskInsert(p) ==
    LET f == inv[p] a == f.args body == TransferBody(f.originalTask) IN
    /\ f.op = "moveTask" /\ f.pc = "insert"
    /\ \E r \in RemoteInsert(a.targetTaskListId, body, 0) :
       /\ calls' = Append(calls, Call(p, 1, "tasks.insert", a.targetTaskListId,
                                      0, body, 0, r.ok, r.data))
       /\ store' = r.store
       /\ nextId' = r.nextId
       /\ IF InsertSucceeded(r)
          THEN inv' = [inv EXCEPT ![p] = [f EXCEPT !.pc = "delete",
                                                   !.newTaskId = r.data.id]]
          ELSE inv' = [inv EXCEPT ![p] = [f EXCEPT !.pc = "done",
                    !.ret = Result(TRUE, "Error moving task",
                              <<Part("msg", "Could not create task in target list")>>)]]
       /\ UNCHANGED <<taskLists, nextListId, initial>>

MoveTaskPartialResult_AsMoved(f) ==
    Result(FALSE, "moved from list to list",
           <<Part("title", f.originalTask.title),
             Part("listId", f.args.sourceTaskListId),
             Part("listId", f.args.targetTaskListId)>>)

MoveTaskPartialResult_AsError(f) ==
    Result(TRUE, "Error moving task", <<Part("msg", "Could not delete source task")>>)

\* The result moveTask returns when the delete failed.
MoveTaskPartialResult(f) ==
    Result(FALSE, "was copied to list but could not be deleted from source list",
           <<Part("title", f.originalTask.title),
             Part("listId", f.args.targetTaskListId)>>)

\* The result moveTask returns when every step succeeded.
MoveTaskMovedResult(f) ==
    Result(FALSE, "moved from list to list",
           <<Part("title", f.originalTask.title),
             Part("listId", f.args.sourceTaskListId),
             Part("listId", f.args.targetTaskListId)>>)

\* Step 3: delete the task from the source list, and return.
MoveTaskDelete(p) ==
    LET f == inv[p] a == f.args IN
    /\ f.op = "moveTask" /\ f.pc = "delete"
    /\ \E r \in RemoteDelete(a.sourceTaskListId, a.taskId) :
       /\ calls' = Append(calls, Call(p, 1, "tasks.delete", a.sourceTaskListId,
                                      a.taskId, NoBody, 0, r.ok, NoTask))
       /\ store' = r.store
       /\ inv' = [inv EXCEPT ![p] = [f EXCEPT !.pc = "done",
                    !.ret = IF r.ok THEN MoveTaskMovedResult(f)
                            ELSE MoveTaskPartialResult(f)]]
       /\ UNCHANGED <<taskLists, nextId, nextListId, initial>>

(***************************************************************************)
(* More of the remote task service: patch of a task, and the task lists.   *)
(***************************************************************************)
\* tasks.tasks.patch: sets the fields the body carries; fails when the task is
\* not there (or the call failed).
RemotePatch(tl, t, body) ==
    {[ok |-> FALSE, data |-> NoTask, store |-> store]}
    \cup {LET old == TasksOf(tl)[i]
              new == [old EXCEPT !.title = IF "title" \in DOMAIN body
                                           THEN body.title ELSE @]
          IN [ok |-> TRUE, data |-> new,
              store |-> [store EXCEPT ![Resolve(tl)] = [@ EXCEPT ![i] = new]]] :
            i \in {j \in 1..Len(TasksOf(tl)) : TasksOf(tl)[j].id = t}}

NoList == [id |-> "", title |-> <<>>]

\* tasks.tasklists.insert: creates an empty task list at the end, or fails.
RemoteListInsert(title) ==
    {[ok |-> FALSE, data |-> NoList, taskLists |-> taskLists, store |-> store,
      nextListId |-> nextListId]}
    \cup (IF nextListId <= Len(NewListIds)
          THEN LET new == [id |-> NewListIds[nextListId], title |-> title]
               IN {[ok |-> TRUE, data |-> new,
                    taskLists |-> Append(taskLists, new),
                    store |-> [l \in ListIds \cup {new.id} |->
                                  IF l \in ListIds THEN store[l] ELSE <<>>],
                    nextListId |-> nextListId + 1]}
          ELSE {})

\* tasks.tasklists.update: retitles the task list; fails when it is not there.
RemoteListUpdate(tl, title) ==
    {[ok |-> FALSE, data |-> NoList, taskLists |-> taskLists]}
    \cup {[ok |-> TRUE, data |-> [id |-> taskLists[i].id, title |-> title],
           taskLists |-> [taskLists EXCEPT ![i] = [id |-> @.id, title |-> title]]] :
            i \in {j \in 1..Len(taskLists) : taskLists[j].id = Resolve(tl)}}

\* tasks.tasklists.delete: removes the task list with its tasks; fails when it
\* is not there.
RemoteListDelete(tl) ==
    {[ok |-> FALSE, taskLists |-> taskLists, store |-> store]}
    \cup {[ok |-> TRUE, taskLists |-> RemoveAt(taskLists, i),
           store |-> [l \in ListIds \ {taskLists[i].id} |-> store[l]]] :
            i \in {j \in 1..Len(taskLists) : taskLists[j].id = Resolve(tl)}}

(***************************************************************************)
(* The batch executors (Tasks.ts 570-1016, 1204-1279).  They share one     *)
(* shape: the array check, a loop over the elements that validates each    *)
(* element, issues its remote calls and records it in results, errors (or  *)
(* warnings), and the summary.                                             *)
(***************************************************************************)
TaskBatchOps ==
    {"batchCreateTasks", "batchUpdateTasks", "batchDeleteTasks", "batchMoveTasks"}

ListBatchOps ==
    {"batchCreateTaskLists", "batchUpdateTaskLists", "batchDeleteTaskLists"}

BatchOps == TaskBatchOps \cup ListBatchOps \cup {"batchCreateSubtasks"}

\* The argument that carries the array.
ArgKey(op) ==
    IF op \in TaskBatchOps THEN "tasks"
    ELSE IF op \in ListBatchOps THEN "lists"
    ELSE "subtasks"

\* A field of a descriptor; an absent field reads as the falsy value.
Field(e, k, falsy) == IF k \in DOMAIN e THEN e[k] ELSE falsy

\* Array.isArray(batch).  A value that is not an array (an object with indexed
\* members and a length) is given by its members, and marked.
IsArray(a) == ~Field(a, "notArray", FALSE)

BatchArgInvalid_NoArrayCheck(f) ==
    \/ ArgKey(f.op) \notin DOMAIN f.args
    \/ Len(f.args[ArgKey(f.op)]) = 0

\* !batch || !Array.isArray(batch) || batch.length === 0
BatchArgInvalid(f) ==
    \/ ArgKey(f.op) \notin DOMAIN f.args
    \/ ~IsArray(f.args)
    \/ Len(f.args[ArgKey(f.op)]) = 0

Batch(f) == f.args[ArgKey(f.op)]

\* The per-element check of required fields, by operation.
ElemInvalid(op, e) ==
    CASE op = "batchCreateTasks" -> Field(e, "title", <<>>) = <<>>
      [] op = "batchUpdateTasks" ->
            Field(e, "taskListId", "") = "" \/ Field(e, "taskId", 0) = 0
      [] op = "batchDeleteTasks" ->
            Field(e, "taskListId", "") = "" \/ Field(e, "taskId", 0) = 0
      [] op = "batchMoveTasks" ->
            \/ Field(e, "sourceTaskListId", "") = ""
            \/ Field(e, "targetTaskListId", "") = ""
            \/ Field(e, "taskId", 0) = 0
      [] op = "batchCreateTaskLists" -> Field(e, "title", <<>>) = <<>>
      [] op = "batchUpdateTaskLists" ->
            Field(e, "listId", "") = "" \/ Field(e, "title", <<>>) = <<>>
      [] op = "batchDeleteTaskLists" -> Field(e, "listId", "") = ""
      [] op = "batchCreateSubtasks" ->
            Field(e, "parentTaskId", 0) = 0 \/ Field(e, "title", <<>>) = <<>>

\* An entry of errors: the message and the descriptor (elem is the element's
\* position in the input, kept for the properties).
ErrorEntry(i, msg, e) == [elem |-> i, error |-> msg, data |-> e]

\* The array check at the head of every batch executor.
BatchBegin(p) ==
    LET f == inv[p] IN
    /\ f.op \in BatchOps /\ f.pc = "start"
    /\ inv' = [inv EXCEPT ![p] =
                 IF BatchArgInvalid(f)
                 THEN [f EXCEPT !.pc = "done",
                                !.ret = Thrown("array is required and must not be empty")]
                 ELSE [f EXCEPT !.pc = "loop"]]
    /\ UNCHANGED <<calls, remoteVars, initial>>

\* The loop is at a live element.
AtElem(f) == f.pc = "loop" /\ f.idx <= Len(Batch(f))

BatchInvalidElement_AfterCall(p) ==
    LET f == inv[p] IN
    /\ f.op \in BatchOps /\ AtElem(f)
    /\ ElemInvalid(f.op, Batch(f)[f.idx])
    /\ calls' = Append(calls, Call(p, f.idx, "tasks.delete", "", 0, NoBody, 0, FALSE, NoTask))
    /\ inv' = [inv EXCEPT ![p] = [f EXCEPT !.idx = @ + 1,
                 !.errors = Append(@, ErrorEntry(f.idx, "remote", Batch(f)[f.idx]))]]
    /\ UNCHANGED <<remoteVars, initial>>

\* An element that lacks a required field: one errors entry, no remote call.
BatchInvalidElement(p) ==
    LET f == inv[p] IN
    /\ f.op \in BatchOps /\ AtElem(f)
    /\ ElemInvalid(f.op, Batch(f)[f.idx])
    /\ inv' = [inv EXCEPT ![p] = [f EXCEPT !.idx = @ + 1,
                 !.errors = Append(@, ErrorEntry(f.idx, "required", Batch(f)[f.idx]))]]
    /\ UNCHANGED <<calls, remoteVars, initial>>

\* taskData.taskListId || "@default"
ListIdOrDefault(e) ==
    IF Field(e, "taskListId", "") = "" THEN DefaultList ELSE e.taskListId

\* The body batchCreateTasks and batchCreateSubtasks build for the insert.
CreateBody(e) ==
    LET base == [title |-> e.title, notes |-> Field(e, "notes", ""),
                 status |-> IF Field(e, "status", "") = "" THEN "needsAction"
                            ELSE e.status]
    IN IF "due" \in DOMAIN e
       THEN [title |-> base.title, notes |-> base.notes, due |-> e.due,
             status |-> base.status]
       ELSE base

Recorded_SharedResults(f, ok, entry) ==
    [f EXCEPT !.pc = "loop", !.idx = @ + 1,
              !.results = IF ok THEN Append(inv[1].results, entry) ELSE @,
              !.errors = IF ok THEN @
                         ELSE Append(@, ErrorEntry(f.idx, "remote", Batch(f)[f.idx]))]

\* The frame after an element's call succeeded (entry) or failed.
Recorded(f, ok, entry) ==
    [f EXCEPT !.pc = "loop", !.idx = @ + 1,
              !.results = IF ok THEN Append(@, entry) ELSE @,
              !.errors = IF ok THEN @
                         ELSE Append(@, ErrorEntry(f.idx, "remote", Batch(f)[f.idx]))]

\* batchCreateTasks: one valid element (Tasks.ts 586-619).
BatchCreateTasks(p) ==
    LET f == inv[p]
        e == Batch(f)[f.idx]
    IN
    /\ f.op = "batchCreateTasks" /\ AtElem(f) /\ ~ElemInvalid(f.op, e)
    /\ \E r \in RemoteInsert(ListIdOrDefault(e), CreateBody(e), 0) :
       /\ calls' = Append(calls, Call(p, f.idx, "tasks.insert", ListIdOrDefault(e), 0,
                                      CreateBody(e), 0, r.ok, r.data))
       /\ store' = r.store
       /\ nextId' = r.nextId
       /\ inv' = [inv EXCEPT ![p] = Recorded(f, r.ok,
                    [elem |-> f.idx, taskId |-> r.data.id, title |-> r.data.title,
                     taskListId |-> ListIdOrDefault(e)])]
       /\ UNCHANGED <<taskLists, nextListId, initial>>

\* The body batchUpdateTasks builds for the patch: only the fields given.
PatchBody(e) ==
    IF "title" \in DOMAIN e THEN [id |-> e.taskId, title |-> e.title]
    ELSE [id |-> e.taskId]

\* batchUpdateTasks: one valid element (Tasks.ts 649-684).
BatchUpdateTasks(p) ==
    LET f == inv[p]
        e == Batch(f)[f.idx]
    IN
    /\ f.op = "batchUpdateTasks" /\ AtElem(f) /\ ~ElemInvalid(f.op, e)
    /\ \E r \in RemotePatch(e.taskListId, e.taskId, PatchBody(e)) :
       /\ calls' = Append(calls, Call(p, f.idx, "tasks.patch", e.taskListId, e.taskId,
                                      PatchBody(e), 0, r.ok, r.data))
       /\ store' = r.store
       /\ inv' = [inv EXCEPT ![p] = Recorded(f, r.ok,
                    [elem |-> f.idx, taskId |-> r.data.id, title |-> r.data.title,
                     taskListId |-> e.taskListId])]
       /\ UNCHANGED <<taskLists, nextId, nextListId, initial>>

\* batchDeleteTasks: one valid element (Tasks.ts 710-733).
BatchDeleteTasks(p) ==
    LET f == inv[p]
        e == Batch(f)[f.idx]
    IN
    /\ f.op = "batchDeleteTasks" /\ AtElem(f) /\ ~ElemInvalid(f.op, e)
    /\ \E r \in RemoteDelete(e.taskListId, e.taskId) :
       /\ calls' = Append(calls, Call(p, f.idx, "tasks.delete", e.taskListId, e.taskId,
                                      NoBody, 0, r.ok, NoTask))
       /\ store' = r.store
       /\ inv' = [inv EXCEPT ![p] = Recorded(f, r.ok,
                    [elem |-> f.idx, taskId |-> e.taskId, taskListId |-> e.taskListId])]
       /\ UNCHANGED <<taskLists, nextId, nextListId, initial>>

\* batchCreateTaskLists: one valid element (Tasks.ts 883-907).
BatchCreateTaskLists(p) ==
    LET f == inv[p]
        e == Batch(f)[f.idx]
    IN
    /\ f.op = "batchCreateTaskLists" /\ AtElem(f) /\ ~ElemInvalid(f.op, e)
    /\ \E r \in RemoteListInsert(e.title) :
       /\ calls' = Append(calls, Call(p, f.idx, "tasklists.insert", "", 0,
                                      [title |-> e.title], 0, r.ok, r.data))
       /\ taskLists' = r.taskLists
       /\ store' = r.store
       /\ nextListId' = r.nextListId
       /\ inv' = [inv EXCEPT ![p] = Recorded(f, r.ok,
                    [elem |-> f.idx, listId |-> r.data.id, title |-> r.data.title])]
       /\ UNCHANGED <<nextId, initial>>

\* batchUpdateTaskLists: one valid element (Tasks.ts 933-959).
BatchUpdateTaskLists(p) ==
    LET f == inv[p]
        e == Batch(f)[f.idx]
    IN
    /\ f.op = "batchUpdateTaskLists" /\ AtElem(f) /\ ~ElemInvalid(f.op, e)
    /\ \E r \in RemoteListUpdate(e.listId, e.title) :
       /\ calls' = Append(calls, Call(p, f.idx, "tasklists.update", e.listId, 0,
                                      [id |-> e.listId, title |-> e.title], 0,
                                      r.ok, r.data))
       /\ taskLists' = r.taskLists
       /\ inv' = [inv EXCEPT ![p] = Recorded(f, r.ok,
                    [elem |-> f.idx, listId |-> r.data.id, title |-> r.data.title])]
       /\ UNCHANGED <<store, nextId, nextListId, initial>>

\* batchDeleteTaskLists: one valid element (Tasks.ts 984-1005).
BatchDeleteTaskLists(p) ==
    LET f == inv[p]
        e == Batch(f)[f.idx]
    IN
    /\ f.op = "batchDeleteTaskLists" /\ AtElem(f) /\ ~ElemInvalid(f.op, e)
    /\ \E r \in RemoteListDelete(e.listId) :
       /\ calls' = Append(calls, Call(p, f.idx, "tasklists.delete", e.listId, 0,
                                      NoBody, 0, r.ok, NoList))
       /\ taskLists' = r.taskLists
       /\ store' = r.store
       /\ inv' = [inv EXCEPT ![p] = Recorded(f, r.ok,
                    [elem |-> f.idx, listId |-> e.listId])]
       /\ UNCHANGED <<nextId, nextListId, initial>>

ElemFailed_RetryOnce(f, msg) ==
    [f EXCEPT !.pc = "loop", !.idx = IF f.errors = <<>> THEN @ ELSE @ + 1,
              !.errors = Append(@, ErrorEntry(f.idx, msg, Batch(f)[f.idx]))]

ElemFailed_StartOver(f, msg) ==
    [f EXCEPT !.pc = "loop", !.idx = IF f.errors = <<>> THEN 1 ELSE @ + 1,
              !.errors = Append(@, ErrorEntry(f.idx, msg, Batch(f)[f.idx]))]

ElemFailed_Break(f, msg) ==
    [f EXCEPT !.pc = "loop", !.idx = Len(Batch(f)) + 1,
              !.errors = Append(@, ErrorEntry(f.idx, msg, Batch(f)[f.idx]))]

\* The frame after an element of batchMoveTasks or batchCreateSubtasks failed.
ElemFailed(f, msg) ==
    [f EXCEPT !.pc = "loop", !.idx = @ + 1,
              !.errors = Append(@, ErrorEntry(f.idx, msg, Batch(f)[f.idx]))]

\* batchMoveTasks, step 1 of a valid element: get the task from the source list
\* (Tasks.ts 767-783).
BatchMoveGet(p) ==
    LET f == inv[p]
        e == Batch(f)[f.idx]
    IN
    /\ f.op = "batchMoveTasks" /\ AtElem(f) /\ ~ElemInvalid(f.op, e)
    /\ \E r \in RemoteGet(e.sourceTaskListId, e.taskId) :
       /\ calls' = Append(calls, Call(p, f.idx, "tasks.get", e.sourceTaskListId,
                                      e.taskId, NoBody, 0, r.ok, r.data))
       /\ inv' = [inv EXCEPT ![p] =
                    IF GetSucceeded(r)
                    THEN [f EXCEPT !.pc = "insert", !.originalTask = r.data]
                    ELSE ElemFailed(f, "Could not get source task")]
       /\ UNCHANGED <<remoteVars, initial>>

\* batchMoveTasks, step 2: create the task in the target list (Tasks.ts 785-807).
BatchMoveInsert(p) ==
    LET f == inv[p]
        e == Batch(f)[f.idx]
        body == TransferBody(f.originalTask)
    IN
    /\ f.op = "batchMoveTasks" /\ f.pc = "insert"
    /\ \E r \in RemoteInsert(e.targetTaskListId, body, 0) :
       /\ calls' = Append(calls, Call(p, f.idx, "tasks.insert", e.targetTaskListId,
                                      0, body, 0, r.ok, r.data))
       /\ store' = r.store
       /\ nextId' = r.nextId
       /\ inv' = [inv EXCEPT ![p] =
                    IF InsertSucceeded(r)
                    THEN [f EXCEPT !.pc = "delete", !.newTaskId = r.data.id]
                    ELSE ElemFailed(f, "Could not create task in target list")]
       /\ UNCHANGED <<taskLists, nextListId, initial>>

MoveRecorded_NoContinue(f, e, ok) ==
    [f EXCEPT !.pc = "loop", !.idx = @ + 1,
         !.results = Append(@, [elem |-> f.idx, originalTaskId |-> e.taskId,
                                newTaskId |-> f.newTaskId,
                                title |-> f.originalTask.title,
                                sourceTaskListId |-> e.sourceTaskListId,
                                targetTaskListId |-> e.targetTaskListId]),
         !.warnings = IF ok THEN @
                      ELSE Append(@, [elem |-> f.idx, moveData |-> e,
                                      originalTaskId |-> e.taskId,
                                      newTaskId |-> f.newTaskId,
                                      title |-> f.originalTask.title])]

MoveRecorded_FailureAsError(f, e, ok) ==
    [f EXCEPT !.pc = "loop", !.idx = @ + 1,
         !.results = IF ok
                     THEN Append(@, [elem |-> f.idx, originalTaskId |-> e.taskId,
                                     newTaskId |-> f.newTaskId,
                                     title |-> f.originalTask.title,
                                     sourceTaskListId |-> e.sourceTaskListId,
                                     targetTaskListId |-> e.targetTaskListId])
                     ELSE @,
         !.errors = IF ok THEN @
                    ELSE Append(@, ErrorEntry(f.idx, "remote", e))]

\* The frame after the delete of a batchMoveTasks element: a results entry when
\* it succeeded, a warnings entry when it failed (Tasks.ts 815-836).
MoveRecorded(f, e, ok) ==
    [f EXCEPT !.pc = "loop", !.idx = @ + 1,
         !.results = IF ok
                     THEN Append(@, [elem |-> f.idx, originalTaskId |-> e.taskId,
                                     newTaskId |-> f.newTaskId,
                                     title |-> f.originalTask.title,
                                     sourceTaskListId |-> e.sourceTaskListId,
                                     targetTaskListId |-> e.targetTaskListId])
                     ELSE @,
         !.warnings = IF ok THEN @
                      ELSE Append(@, [elem |-> f.idx, moveData |-> e,
                                      originalTaskId |-> e.taskId,
                                      newTaskId |-> f.newTaskId,
                                      title |-> f.originalTask.title])]

\* batchMoveTasks, step 3: delete the task from the source list (Tasks.ts 809-836).
BatchMoveDelete(p) ==
    LET f == inv[p]
        e == Batch(f)[f.idx]
    IN
    /\ f.op = "batchMoveTasks" /\ f.pc = "delete"
    /\ \E r \in RemoteDelete(e.sourceTaskListId, e.taskId) :
       /\ calls' = Append(calls, Call(p, f.idx, "tasks.delete", e.sourceTaskListId,
                                      e.taskId, NoBody, 0, r.ok, NoTask))
       /\ store' = r.store
       /\ inv' = [inv EXCEPT ![p] = MoveRecorded(f, e, r.ok)]
       /\ UNCHANGED <<taskLists, nextId, nextListId, initial>>

\* batchCreateSubtasks, step 1 of a valid element: verify the parent exists
\* (Tasks.ts 1229-1238).
BatchCreateSubtasksGet(p) ==
    LET f == inv[p]
        e == Batch(f)[f.idx]
    IN
    /\ f.op = "batchCreateSubtasks" /\ AtElem(f) /\ ~ElemInvalid(f.op, e)
    /\ \E r \in RemoteGet(ListIdOrDefault(e), e.parentTaskId) :
       /\ calls' = Append(calls, Call(p, f.idx, "tasks.get", ListIdOrDefault(e),
                                      e.parentTaskId, NoBody, 0, r.ok, r.data))
       /\ inv' = [inv EXCEPT ![p] =
                    IF r.ok THEN [f EXCEPT !.pc = "insert"]
                    ELSE ElemFailed(f, "Could not verify parent task")]
       /\ UNCHANGED <<remoteVars, initial>>

\* batchCreateSubtasks, step 2: create the subtask, the parent passed as a
\* parameter of the call (Tasks.ts 1240-1267).
BatchCreateSubtasksInsert(p) ==
    LET f == inv[p]
        e == Batch(f)[f.idx]
    IN
    /\ f.op = "batchCreateSubtasks" /\ f.pc = "insert"
    /\ \E r \in RemoteInsert(ListIdOrDefault(e), CreateBody(e), e.parentTaskId) :
       /\ calls' = Append(calls, Call(p, f.idx, "tasks.insert", ListIdOrDefault(e), 0,
                                      CreateBody(e), e.parentTaskId, r.ok, r.data))
       /\ store' = r.store
       /\ nextId' = r.nextId
       /\ inv' = [inv EXCEPT ![p] = Recorded(f, r.ok,
                    [elem |-> f.idx, taskId |-> r.data.id, title |-> r.data.title,
                     parentTaskId |-> e.parentTaskId,
                     taskListId |-> ListIdOrDefault(e)])]
       /\ UNCHANGED <<taskLists, nextListId, initial>>

\* The fields of a results entry that its line of the report interpolates.
ResultFields(op) ==
    CASE op = "batchCreateTasks" -> {"title", "taskListId", "taskId"}
      [] op = "batchUpdateTasks" -> {"title", "taskListId"}
      [] op = "batchDeleteTasks" -> {"taskId", "taskListId"}
      [] op = "batchMoveTasks" -> {"title", "sourceTaskListId", "targetTaskListId"}
      [] op = "batchCreateTaskLists" -> {"title", "listId"}
      [] op = "batchUpdateTaskLists" -> {"title", "listId"}
      [] op = "batchDeleteTaskLists" -> {"listId"}
      [] op = "batchCreateSubtasks" -> {"title", "parentTaskId", "taskId"}

ResultLines(f) ==
    [i \in 1..Len(f.results) |->
        Part("result", [x \in ResultFields(f.op) |-> f.results[i][x]])]

WarningLines(f) ==
    [i \in 1..Len(f.warnings) |->
        Part("warning", [title |-> f.warnings[i].title,
                         targetTaskListId |-> f.warnings[i].moveData.targetTaskListId,
                         sourceTaskListId |-> f.warnings[i].moveData.sourceTaskListId])]

ErrorLines(f) == [i \in 1..Len(f.errors) |-> Part("error", f.errors[i].error)]

BatchResult_ErrorWhenNoneSucceeds(f) ==
    Result(Len(f.results) = 0, f.op,
           <<Part("succeeded", Len(f.results)), Part("failed", Len(f.errors))>>
           \o (IF Len(f.warnings) > 0 THEN <<Part("partial", Len(f.warnings))>>
               ELSE <<>>)
           \o ResultLines(f) \o WarningLines(f) \o ErrorLines(f))

\* The summary every batch executor returns: the counts, then the itemized
\* lines; warnings are counted and listed only when there are some.
BatchResult(f) ==
    Result(FALSE, f.op,
           <<Part("succeeded", Len(f.results)), Part("failed", Len(f.errors))>>
           \o (IF Len(f.warnings) > 0 THEN <<Part("partial", Len(f.warnings))>>
               ELSE <<>>)
           \o ResultLines(f) \o WarningLines(f) \o ErrorLines(f))

\* The end of the loop: the executor returns its report.
BatchReturn(p) ==
    LET f == inv[p] IN
    /\ f.op \in BatchOps /\ f.pc = "loop" /\ f.idx > Len(Batch(f))
    /\ inv' = [inv EXCEPT ![p] = [f EXCEPT !.pc = "done", !.ret = BatchResult(f)]]
    /\ UNCHANGED <<calls, remoteVars, initial>>

(***************************************************************************)
(* Strings, as reorganizeTasks inspects them.                              *)
(***************************************************************************)
UpperCase ==
    <<"A", "B", "C", "D", "E", "F", "G", "H", "I", "J", "K", "L", "M",
      "N", "O", "P", "Q", "R", "S", "T", "U", "V", "W", "X", "Y", "Z">>

LowerCase ==
    <<"a", "b", "c", "d", "e", "f", "g", "h", "i", "j", "k", "l", "m",
      "n", "o", "p", "q", "r", "s", "t", "u", "v", "w", "x", "y", "z">>

LowerChar(c) ==
    IF \E i \in 1..Len(UpperCase) : UpperCase[i] = c
    THEN LowerCase[CHOOSE i \in 1..Len(UpperCase) : UpperCase[i] = c]
    ELSE c

\* String.prototype.toLowerCase
ToLowerCase(s) == [i \in 1..Len(s) |-> LowerChar(s[i])]

WhiteSpace == {" ", "\t", "\n"}

RECURSIVE TrimStart(_)
TrimStart(s) ==
    IF s # <<>> /\ Head(s) \in WhiteSpace THEN TrimStart(Tail(s)) ELSE s

RECURSIVE TrimEnd(_)
TrimEnd(s) ==
    IF s # <<>> /\ s[Len(s)] \in WhiteSpace
    THEN TrimEnd(SubSeq(s, 1, Len(s) - 1)) ELSE s

\* String.prototype.trim
Trim(s) == TrimEnd(TrimStart(s))

StartsWith_IgnoreCase(s, t) ==
    Len(t) <= Len(s) /\ ToLowerCase(SubSeq(s, 1, Len(t))) = ToLowerCase(t)

\* String.prototype.startsWith
StartsWith(s, t) == Len(t) <= Len(s) /\ SubSeq(s, 1, Len(t)) = t

\* `[${prefix}]`
Bracketed(prefix) == <<"[">> \o prefix \o <<"]">>

(***************************************************************************)
(* Object.entries(prefixMappings).  The caller supplies the mapping as the *)
(* members of a JSON object, in order: a sequence of [prefix, title].  The *)
(* object keeps one property per key, with the value given last; its       *)
(* entries come with the keys that are array indices first, in ascending   *)
(* numeric order, and then the other keys in the order they were first     *)
(* given.                                                                  *)
(***************************************************************************)
Digits == <<"0", "1", "2", "3", "4", "5", "6", "7", "8", "9">>

IsDigit(c) == \E i \in 1..Len(Digits) : Digits[i] = c

DigitValue(c) == (CHOOSE i \in 1..Len(Digits) : Digits[i] = c) - 1

RECURSIVE NumValue(_)
NumValue(k) ==
    IF k = <<>> THEN 0
    ELSE 10 * NumValue(SubSeq(k, 1, Len(k) - 1)) + DigitValue(k[Len(k)])

\* A canonical numeric string below 2^32 - 1: such keys are ordered first.
\* (Keys of up to nine digits, all of which are below 2^32 - 1.)
IsIndexKey(k) ==
    /\ k # <<>>
    /\ \A i \in 1..Len(k) : IsDigit(k[i])
    /\ (Len(k) > 1 => k[1] # "0")
    /\ Len(k) < Len(Digits)

\* The value the object holds for a key: the one given last.
LastValue(members, k) ==
    members[CHOOSE i \in 1..Len(members) :
                /\ members[i].prefix = k
                /\ \A j \in (i + 1)..Len(members) : members[j].prefix # k].title

\* The members that introduce their key, in order, each with the key's value.
RECURSIVE OwnProperties(_, _)
OwnProperties(members, n) ==
    IF n = 0 THEN <<>>
    ELSE LET k == members[n].prefix IN
         IF \E j \in 1..(n - 1) : members[j].prefix = k
         THEN OwnProperties(members, n - 1)
         ELSE Append(OwnProperties(members, n - 1),
                     [prefix |-> k, title |-> LastValue(members, k)])

\* The index keys of ps in ascending numeric order.
RECURSIVE SortedIndexKeys(_)
SortedIndexKeys(ps) ==
    LET I == {i \in 1..Len(ps) : IsIndexKey(ps[i].prefix)} IN
    IF I = {} THEN <<>>
    ELSE LET m == CHOOSE i \in I :
                    \A j \in I : NumValue(ps[i].prefix) <= NumValue(ps[j].prefix)
         IN <<ps[m]>> \o SortedIndexKeys(RemoveAt(ps, m))

ObjectEntries(members) ==
    LET ps == OwnProperties(members, Len(members)) IN
    SortedIndexKeys(ps) \o SelectSeq(ps, LAMBDA e : ~IsIndexKey(e.prefix))

\* Object.keys(prefixMappings).length === 0
NoKeys(members) == Len(members) = 0

(***************************************************************************)
(* The listing calls of the remote task service.                           *)
(***************************************************************************)
MAX_TASK_RESULTS == 100

FirstN(s, n) == IF Len(s) <= n THEN s ELSE SubSeq(s, 1, n)

\* tasks.tasklists.list({maxResults}): the first task lists, or a failure.
RemoteListLists(maxResults) ==
    {[ok |-> FALSE, items |-> <<>>], [ok |-> TRUE, items |-> FirstN(taskLists, maxResults)]}

\* tasks.tasks.list({tasklist, maxResults}): the first tasks of the list, or a
\* failure.
RemoteListTasks(tl, maxResults) ==
    {[ok |-> FALSE, items |-> <<>>]}
    \cup (IF Resolve(tl) \in ListIds
          THEN {[ok |-> TRUE, items |-> FirstN(TasksOf(tl), maxResults)]}
          ELSE {})

(***************************************************************************)
(* _list (Tasks.ts 96-127), as reorganizeTasks runs it, and                *)
(* reorganizeTasks (Tasks.ts 418-567).                                     *)
(***************************************************************************)
\* tasks.map(task => ({...task, taskListId, taskListTitle}))
WithListInfo(items, list) ==
    [i \in 1..Len(items) |->
        [id |-> items[i].id, title |-> items[i].title, notes |-> items[i].notes,
         due |-> items[i].due, status |-> items[i].status, parent |-> items[i].parent,
         taskListId |-> list.id, taskListTitle |-> list.title]]

\* !prefixMappings || Object.keys(prefixMappings).length === 0
ReorgArgsMissing(a) ==
    "prefixMappings" \notin DOMAIN a \/ NoKeys(a.prefixMappings)

DryRun_Ignored(a) == FALSE

\* request.params.arguments?.dryRun as boolean || false
DryRun(a) == "dryRun" \in DOMAIN a /\ a.dryRun

ReorgError_Hangs(f) == [f EXCEPT !.pc = "waiting"]

ReorgError(f) ==
    [f EXCEPT !.pc = "done",
              !.ret = Result(TRUE, "Error reorganizing tasks", <<Part("msg", "remote")>>)]

\* Validation, then the first call of _list: the task lists.
ReorgBegin(p) ==
    LET f == inv[p] IN
    /\ f.op = "reorganizeTasks" /\ f.pc = "start"
    /\ IF ReorgArgsMissing(f.args)
       THEN /\ inv' = [inv EXCEPT ![p] = [f EXCEPT !.pc = "done",
                         !.ret = Thrown("Prefix mappings are required and must not be empty")]]
            /\ UNCHANGED calls
       ELSE \E r \in RemoteListLists(MAX_TASK_RESULTS) :
            /\ calls' = Append(calls, Call(p, 0, "tasklists.list", "", 0, NoBody, 0,
                                           r.ok, NoTask))
            /\ inv' = [inv EXCEPT ![p] =
                         IF r.ok THEN [f EXCEPT !.pc = "listTasks", !.lists = r.items,
                                                !.idx = 1]
                         ELSE ReorgError(f)]
    /\ UNCHANGED <<remoteVars, initial>>

ReorgListTasks_AbortOnError(p) ==
    LET f == inv[p] IN
    /\ f.op = "reorganizeTasks" /\ f.pc = "listTasks" /\ f.idx <= Len(f.lists)
    /\ \E r \in RemoteListTasks(f.lists[f.idx].id, MAX_TASK_RESULTS) :
       /\ calls' = Append(calls, Call(p, 0, "tasks.list", f.lists[f.idx].id, 0, NoBody,
                                      0, r.ok, NoTask))
       /\ inv' = [inv EXCEPT ![p] =
                    IF r.ok
                    THEN [f EXCEPT !.idx = @ + 1,
                                   !.allTasks = @ \o WithListInfo(r.items, f.lists[f.idx])]
                    ELSE ReorgError(f)]
    /\ UNCHANGED <<remoteVars, initial>>

\* _list, one task list: its tasks, annotated; a list whose fetch fails is
\* skipped.
ReorgListTasks(p) ==
    LET f == inv[p] IN
    /\ f.op = "reorganizeTasks" /\ f.pc = "listTasks" /\ f.idx <= Len(f.lists)
    /\ \E r \in RemoteListTasks(f.lists[f.idx].id, MAX_TASK_RESULTS) :
       /\ calls' = Append(calls, Call(p, 0, "tasks.list", f.lists[f.idx].id, 0, NoBody,
                                      0, r.ok, NoTask))
       /\ inv' = [inv EXCEPT ![p] = [f EXCEPT !.idx = @ + 1,
                    !.allTasks = IF r.ok THEN @ \o WithListInfo(r.items, f.lists[f.idx])
                                 ELSE @]]
    /\ UNCHANGED <<remoteVars, initial>>

\* The lookups are plain objects ({}), so a key they do not hold themselves is
\* looked up in Object.prototype: these are the names it answers to.
ObjectPrototype ==
    {<<"c", "o", "n", "s", "t", "r", "u", "c", "t", "o", "r">>,
     <<"_", "_", "p", "r", "o", "t", "o", "_", "_">>,
     <<"h", "a", "s", "O", "w", "n", "P", "r", "o", "p", "e", "r", "t", "y">>,
     <<"i", "s", "P", "r", "o", "t", "o", "t", "y", "p", "e", "O", "f">>,
     <<"p", "r", "o", "p", "e", "r", "t", "y", "I", "s", "E", "n", "u", "m", "e", "r", "a", "b", "l", "e">>,
     <<"t", "o", "L", "o", "c", "a", "l", "e", "S", "t", "r", "i", "n", "g">>,
     <<"t", "o", "S", "t", "r", "i", "n", "g">>,
     <<"v", "a", "l", "u", "e", "O", "f">>,
     <<"_", "_", "d", "e", "f", "i", "n", "e", "G", "e", "t", "t", "e", "r", "_", "_">>,
     <<"_", "_", "d", "e", "f", "i", "n", "e", "S", "e", "t", "t", "e", "r", "_", "_">>,
     <<"_", "_", "l", "o", "o", "k", "u", "p", "G", "e", "t", "t", "e", "r", "_", "_">>,
     <<"_", "_", "l", "o", "o", "k", "u", "p", "S", "e", "t", "t", "e", "r", "_", "_">>}

\* What a plain object answers for an inherited name: a function or an object,
\* truthy, and the id of no task list.
Inherited == "Object.prototype"

\* obj[key] = id on a plain object: "__proto__" names the prototype, and the
\* assignment of a string to it stores nothing.
Storable(key) == key # <<"_", "_", "p", "r", "o", "t", "o", "_", "_">>

\* listIdByTitle[title]: the id of the last task list with that title that has
\* a title and an id; what Object.prototype holds under that name when there is
\* none; "" (undefined) otherwise.
ListIdByTitle(lists, title) ==
    LET I == {i \in 1..Len(lists) :
                /\ lists[i].title # <<>> /\ lists[i].id # ""
                /\ lists[i].title = title /\ Storable(title)}
    IN IF I # {} THEN lists[CHOOSE i \in I : \A j \in I : j <= i].id
       ELSE IF title \in ObjectPrototype THEN Inherited
       ELSE ""

\* listIdByNormalizedTitle[title], keyed by list.title.toLowerCase().trim().
ListIdByNormalizedTitle(lists, title) ==
    LET I == {i \in 1..Len(lists) :
                /\ lists[i].title # <<>> /\ lists[i].id # ""
                /\ Trim(ToLowerCase(lists[i].title)) = title /\ Storable(title)}
    IN IF I # {} THEN lists[CHOOSE i \in I : \A j \in I : j <= i].id
       ELSE IF title \in ObjectPrototype THEN Inherited
       ELSE ""

\* The exact match first; the normalized match when that finds nothing.
TargetListId(lists, targetListTitle) ==
    IF ListIdByTitle(lists, targetListTitle) # ""
    THEN ListIdByTitle(lists, targetListTitle)
    ELSE ListIdByNormalizedTitle(lists, Trim(ToLowerCase(targetListTitle)))

RECURSIVE PlanFor_NoBreak(_, _, _)
PlanFor_NoBreak(task, entries, lists) ==
    IF entries = <<>> THEN <<>>
    ELSE LET e == Head(entries)
             targetListId == TargetListId(lists, e.title)
         IN IF /\ StartsWith(task.title, Bracketed(e.prefix))
               /\ targetListId # "" /\ task.taskListId # targetListId
            THEN <<[task |-> task, targetListId |-> targetListId,
                    targetListTitle |-> e.title, prefix |-> e.prefix]>>
                 \o PlanFor_NoBreak(task, Tail(entries), lists)
            ELSE PlanFor_NoBreak(task, Tail(entries), lists)

\* The inner loop over the entries for one task: the plan of the first entry
\* whose prefix the title starts with and whose target resolves to another
\* list than the task's; an entry that does not qualify passes to the next.
RECURSIVE PlanFor(_, _, _)
PlanFor(task, entries, lists) ==
    IF entries = <<>> THEN <<>>
    ELSE LET e == Head(entries)
             targetListId == TargetListId(lists, e.title)
         IN IF ~StartsWith(task.title, Bracketed(e.prefix))
            THEN PlanFor(task, Tail(entries), lists)
            ELSE IF targetListId = ""
            THEN PlanFor(task, Tail(entries), lists)
            ELSE IF task.taskListId = targetListId
            THEN PlanFor(task, Tail(entries), lists)
            ELSE <<[task |-> task, targetListId |-> targetListId,
                    targetListTitle |-> e.title, prefix |-> e.prefix]>>

\* if (!task?.title || !task?.taskListId || !task?.id) continue
Plannable(task) == task.title # <<>> /\ task.taskListId # "" /\ task.id # 0

\* The outer loop over the enumerated tasks.
RECURSIVE MovePlans(_, _, _)
MovePlans(allTasks, entries, lists) ==
    IF allTasks = <<>> THEN <<>>
    ELSE (IF Plannable(Head(allTasks)) THEN PlanFor(Head(allTasks), entries, lists)
          ELSE <<>>)
         \o MovePlans(Tail(allTasks), entries, lists)

DryRunLines_WithoutLast(plans) ==
    <<Part("Would move", Len(plans))>>
    \o [i \in 1..(Len(plans) - 1) |->
          Part("plan", [title |-> plans[i].task.title,
                        from |-> plans[i].task.taskListTitle,
                        to |-> plans[i].targetListTitle])]

\* The lines of the dry-run report.
DryRunLines(plans) ==
    <<Part("Would move", Len(plans))>>
    \o [i \in 1..Len(plans) |->
          Part("plan", [title |-> plans[i].task.title,
                        from |-> plans[i].task.taskListTitle,
                        to |-> plans[i].targetListTitle])]

\* The report reorganizeTasks returns.
ReorgResult(f) == Result(FALSE, "reorganizeTasks", f.results)

\* The summary line that ends the live report.
Summary(f) ==
    Part("Summary", [succeeded |-> f.successCount, failed |-> f.failureCount])

PlanDone_FailureUncounted(f, line, ok) ==
    LET g == [f EXCEPT !.results = Append(@, line),
                       !.successCount = IF ok THEN @ + 1 ELSE @]
    IN IF f.idx < Len(f.movePlans)
       THEN [g EXCEPT !.pc = "insert", !.idx = @ + 1]
       ELSE LET h == [g EXCEPT !.pc = "done", !.idx = @ + 1,
                               !.results = Append(@, Summary(g))]
            IN [h EXCEPT !.ret = ReorgResult(h)]

PlanDone_Miscounted(f, line, ok) ==
    LET g == [f EXCEPT !.results = Append(@, line), !.failureCount = @ + 1]
    IN IF f.idx < Len(f.movePlans)
       THEN [g EXCEPT !.pc = "insert", !.idx = @ + 1]
       ELSE LET h == [g EXCEPT !.pc = "done", !.idx = @ + 1,
                               !.results = Append(@, Summary(g))]
            IN [h EXCEPT !.ret = ReorgResult(h)]

\* The frame after a plan was carried out or failed: on to the next plan, or
\* the summary and the return.
PlanDone(f, line, ok) ==
    LET g == [f EXCEPT !.results = Append(@, line),
                       !.successCount = IF ok THEN @ + 1 ELSE @,
                       !.failureCount = IF ok THEN @ ELSE @ + 1]
    IN IF f.idx < Len(f.movePlans)
       THEN [g EXCEPT !.pc = "insert", !.idx = @ + 1]
       ELSE LET h == [g EXCEPT !.pc = "done", !.idx = @ + 1,
                               !.results = Append(@, Summary(g))]
            IN [h EXCEPT !.ret = ReorgResult(h)]

\* The second listing of the task lists, the lookups and the plans; then the
\* dry-run report, or the start of the moves.
ReorgPlan(p) ==
    LET f == inv[p] IN
    /\ f.op = "reorganizeTasks" /\ f.pc = "listTasks" /\ f.idx > Len(f.lists)
    /\ \E r \in RemoteListLists(MAX_TASK_RESULTS) :
       /\ calls' = Append(calls, Call(p, 0, "tasklists.list", "", 0, NoBody, 0,
                                      r.ok, NoTask))
       /\ inv' = [inv EXCEPT ![p] =
            IF ~r.ok THEN ReorgError(f)
            ELSE LET plans == MovePlans(f.allTasks, ObjectEntries(f.args.prefixMappings),
                                        r.items)
                     g == [f EXCEPT !.lists = r.items, !.movePlans = plans, !.idx = 1]
                 IN IF DryRun(f.args)
                    THEN LET h == [g EXCEPT !.pc = "done", !.results = DryRunLines(plans)]
                         IN [h EXCEPT !.ret = ReorgResult(h)]
                    ELSE IF plans = <<>>
                    THEN LET h == [g EXCEPT !.pc = "done",
                                      !.results = <<Part("Moving", 0), Summary(g)>>]
                         IN [h EXCEPT !.ret = ReorgResult(h)]
                    ELSE [g EXCEPT !.pc = "insert",
                                   !.results = <<Part("Moving", Len(plans))>>]]
    /\ UNCHANGED <<remoteVars, initial>>

FailedLine(plan) == Part("FAILED", [title |-> plan.task.title])

MovedLine(plan) ==
    Part("Moved", [title |-> plan.task.title, from |-> plan.task.taskListTitle,
                   to |-> plan.targetListTitle])

\* A live plan, first call: insert the copy into the target list.
ReorgInsert(p) ==
    LET f == inv[p]
        plan == f.movePlans[f.idx]
        body == TransferBody(plan.task)
    IN
    /\ f.op = "reorganizeTasks" /\ f.pc = "insert"
    /\ \E r \in RemoteInsert(plan.targetListId, body, 0) :
       /\ calls' = Append(calls, Call(p, f.idx, "tasks.insert", plan.targetListId, 0,
                                      body, 0, r.ok, r.data))
       /\ store' = r.store
       /\ nextId' = r.nextId
       /\ inv' = [inv EXCEPT ![p] =
                    IF InsertSucceeded(r)
                    THEN [f EXCEPT !.pc = "delete", !.newTaskId = r.data.id]
                    ELSE PlanDone(f, FailedLine(plan), FALSE)]
    /\ UNCHANGED <<taskLists, nextListId, initial>>

\* A live plan, second call: delete the original.
ReorgDelete(p) ==
    LET f == inv[p]
        plan == f.movePlans[f.idx]
    IN
    /\ f.op = "reorganizeTasks" /\ f.pc = "delete"
    /\ \E r \in RemoteDelete(plan.task.taskListId, plan.task.id) :
       /\ calls' = Append(calls, Call(p, f.idx, "tasks.delete", plan.task.taskListId,
                                      plan.task.id, NoBody, 0, r.ok, NoTask))
       /\ store' = r.store
       /\ inv' = [inv EXCEPT ![p] =
                    PlanDone(f, IF r.ok THEN MovedLine(plan) ELSE FailedLine(plan), r.ok)]
    /\ UNCHANGED <<taskLists, nextId, nextListId, initial>>

(***************************************************************************)
(* makeSubtask (Tasks.ts 1019-1076) and listSubtasks (Tasks.ts 1143-1202). *)
(***************************************************************************)
\* tasks.tasks.move({tasklist, task, parent}): puts the task under the parent
\* and returns it; fails when either is not in the list, when the parent is
\* the task or one of its children, or when the call failed.
RemoteMove(tl, t, parent) ==
    {[ok |-> FALSE, data |-> NoTask, store |-> store]}
    \cup {[ok |-> TRUE, data |-> [TasksOf(tl)[i] EXCEPT !.parent = parent],
           store |-> [store EXCEPT ![Resolve(tl)][i].parent = parent]] :
            i \in {j \in 1..Len(TasksOf(tl)) :
                     /\ TasksOf(tl)[j].id = t
                     /\ t # parent
                     /\ \E k \in 1..Len(TasksOf(tl)) :
                           TasksOf(tl)[k].id = parent /\ TasksOf(tl)[k].parent # t}}

\* !taskListId || !taskId || !parentTaskId
MakeSubtaskArgsMissing(a) == a.taskListId = "" \/ a.taskId = 0 \/ a.parentTaskId = 0

SubtaskError(f, template) ==
    [f EXCEPT !.pc = "done", !.ret = Result(TRUE, template, <<Part("msg", "remote")>>)]

\* Validation, then the first existence fetch: the task.
MakeSubtaskGetTask(p) ==
    LET f == inv[p] IN
    /\ f.op = "makeSubtask" /\ f.pc = "start"
    /\ IF MakeSubtaskArgsMissing(f.args)
       THEN /\ inv' = [inv EXCEPT ![p] = [f EXCEPT !.pc = "done",
                         !.ret = Thrown("Task list ID, task ID, and parent task ID are required")]]
            /\ UNCHANGED calls
       ELSE \E r \in RemoteGet(f.args.taskListId, f.args.taskId) :
            /\ calls' = Append(calls, Call(p, 0, "tasks.get", f.args.taskListId,
                                           f.args.taskId, NoBody, 0, r.ok, r.data))
            /\ inv' = [inv EXCEPT ![p] =
                         IF r.ok THEN [f EXCEPT !.pc = "getParent"]
                         ELSE SubtaskError(f, "Error making subtask: Could not verify tasks")]
    /\ UNCHANGED <<remoteVars, initial>>

\* The second existence fetch: the parent.
MakeSubtaskGetParent_Unchecked(p) ==
    LET f == inv[p] IN
    /\ f.op = "makeSubtask" /\ f.pc = "getParent"
    /\ \E r \in RemoteGet(f.args.taskListId, f.args.parentTaskId) :
       /\ calls' = Append(calls, Call(p, 0, "tasks.get", f.args.taskListId,
                                      f.args.parentTaskId, NoBody, 0, r.ok, r.data))
       /\ inv' = [inv EXCEPT ![p] = [f EXCEPT !.pc = "move"]]
    /\ UNCHANGED <<remoteVars, initial>>

MakeSubtaskGetParent(p) ==
    LET f == inv[p] IN
    /\ f.op = "makeSubtask" /\ f.pc = "getParent"
    /\ \E r \in RemoteGet(f.args.taskListId, f.args.parentTaskId) :
       /\ calls' = Append(calls, Call(p, 0, "tasks.get", f.args.taskListId,
                                      f.args.parentTaskId, NoBody, 0, r.ok, r.data))
       /\ inv' = [inv EXCEPT ![p] =
                    IF r.ok THEN [f EXCEPT !.pc = "move"]
                    ELSE SubtaskError(f, "Error making subtask: Could not verify tasks")]
    /\ UNCHANGED <<remoteVars, initial>>

\* The reparent call, and the result.
MakeSubtaskMove(p) ==
    LET f == inv[p] IN
    /\ f.op = "makeSubtask" /\ f.pc = "move"
    /\ \E r \in RemoteMove(f.args.taskListId, f.args.taskId, f.args.parentTaskId) :
       /\ calls' = Append(calls, Call(p, 0, "tasks.move", f.args.taskListId,
                                      f.args.taskId, NoBody, f.args.parentTaskId,
                                      r.ok, r.data))
       /\ store' = r.store
       /\ inv' = [inv EXCEPT ![p] =
                    IF r.ok
                    THEN [f EXCEPT !.pc = "done",
                            !.ret = Result(FALSE, "is now a subtask of",
                                           <<Part("title", r.data.title),
                                             Part("parentTaskId", f.args.parentTaskId)>>)]
                    ELSE SubtaskError(f, "Error making subtask: Could not make subtask")]
    /\ UNCHANGED <<taskLists, nextId, nextListId, initial>>

\* request.params.arguments?.taskListId as string || "@default"
ListSubtasksListId(a) == IF a.taskListId = "" THEN DefaultList ELSE a.taskListId

\* !taskListId || !parentTaskId
ListSubtasksArgsMissing(a) == ListSubtasksListId(a) = "" \/ a.parentTaskId = 0

\* Validation, then the page of the list's tasks.
ListSubtasksList(p) ==
    LET f == inv[p]
        taskListId == ListSubtasksListId(f.args)
    IN
    /\ f.op = "listSubtasks" /\ f.pc = "start"
    /\ IF ListSubtasksArgsMissing(f.args)
       THEN /\ inv' = [inv EXCEPT ![p] = [f EXCEPT !.pc = "done",
                         !.ret = Thrown("Task list ID and parent task ID are required")]]
            /\ UNCHANGED calls
       ELSE \E r \in RemoteListTasks(taskListId, MAX_TASK_RESULTS) :
            /\ calls' = Append(calls, Call(p, 0, "tasks.list", taskListId, 0, NoBody, 0,
                                           r.ok, NoTask))
            /\ inv' = [inv EXCEPT ![p] =
                         IF r.ok THEN [f EXCEPT !.pc = "getParent", !.items = r.items]
                         ELSE SubtaskError(f, "Error listing subtasks")]
    /\ UNCHANGED <<remoteVars, initial>>

Subtasks_WithDescendants(items, parentTaskId) ==
    SelectSeq(items, LAMBDA task :
        \/ task.parent = parentTaskId
        \/ \E i \in 1..Len(items) :
              items[i].id = task.parent /\ items[i].parent = parentTaskId)

\* items.filter(task => task.parent === parentTaskId)
Subtasks(items, parentTaskId) ==
    SelectSeq(items, LAMBDA task : task.parent = parentTaskId)

\* The fetch of the parent, the filter and the result.
ListSubtasksGet(p) ==
    LET f == inv[p]
        taskListId == ListSubtasksListId(f.args)
    IN
    /\ f.op = "listSubtasks" /\ f.pc = "getParent"
    /\ \E r \in RemoteGet(taskListId, f.args.parentTaskId) :
       /\ calls' = Append(calls, Call(p, 0, "tasks.get", taskListId, f.args.parentTaskId,
                                      NoBody, 0, r.ok, r.data))
       /\ inv' = [inv EXCEPT ![p] =
                    IF r.ok
                    THEN LET subtasks == Subtasks(f.items, f.args.parentTaskId) IN
                         [f EXCEPT !.pc = "done",
                            !.ret = Result(FALSE, "Found subtasks for",
                                           <<Part("Found", Len(subtasks)),
                                             Part("parent", r.data.title),
                                             Part("subtasks", subtasks)>>)]
                    ELSE SubtaskError(f, "Error listing subtasks: Could not get parent task")]
    /\ UNCHANGED <<remoteVars, initial>>

(***************************************************************************)
(* createSubtask (Tasks.ts 1078-1141).                                     *)
(***************************************************************************)
\* !parentTaskId || !taskTitle
CreateSubtaskArgsMissing(a) == a.parentTaskId = 0 \/ a.title = <<>>

CreateSubtaskGet_Unchecked(p) ==
    LET f == inv[p]
        taskListId == ListIdOrDefault(f.args)
    IN
    /\ f.op = "createSubtask" /\ f.pc = "start"
    /\ IF CreateSubtaskArgsMissing(f.args)
       THEN /\ inv' = [inv EXCEPT ![p] = [f EXCEPT !.pc = "done",
                         !.ret = Thrown("Parent task ID and task title are required")]]
            /\ UNCHANGED calls
       ELSE \E r \in RemoteGet(taskListId, f.args.parentTaskId) :
            /\ calls' = Append(calls, Call(p, 0, "tasks.get", taskListId,
                                           f.args.parentTaskId, NoBody, 0, r.ok, r.data))
            /\ inv' = [inv EXCEPT ![p] = [f EXCEPT !.pc = "insert"]]
    /\ UNCHANGED <<remoteVars, initial>>

\* Validation, then the fetch of the parent.
CreateSubtaskGet(p) ==
    LET f == inv[p]
        taskListId == ListIdOrDefault(f.args)
    IN
    /\ f.op = "createSubtask" /\ f.pc = "start"
    /\ IF CreateSubtaskArgsMissing(f.args)
       THEN /\ inv' = [inv EXCEPT ![p] = [f EXCEPT !.pc = "done",
                         !.ret = Thrown("Parent task ID and task title are required")]]
            /\ UNCHANGED calls
       ELSE \E r \in RemoteGet(taskListId, f.args.parentTaskId) :
            /\ calls' = Append(calls, Call(p, 0, "tasks.get", taskListId,
                                           f.args.parentTaskId, NoBody, 0, r.ok, r.data))
            /\ inv' = [inv EXCEPT ![p] =
                         IF r.ok THEN [f EXCEPT !.pc = "insert"]
                         ELSE SubtaskError(f, "Error creating subtask: Could not verify parent task")]
    /\ UNCHANGED <<remoteVars, initial>>

\* The insert, the parent passed as a parameter of the call, and the result.
CreateSubtaskInsert(p) ==
    LET f == inv[p]
        taskListId == ListIdOrDefault(f.args)
        task == CreateBody(f.args)
    IN
    /\ f.op = "createSubtask" /\ f.pc = "insert"
    /\ \E r \in RemoteInsert(taskListId, task, f.args.parentTaskId) :
       /\ calls' = Append(calls, Call(p, 0, "tasks.insert", taskListId, 0, task,
                                      f.args.parentTaskId, r.ok, r.data))
       /\ store' = r.store
       /\ nextId' = r.nextId
       /\ inv' = [inv EXCEPT ![p] =
                    IF r.ok
                    THEN [f EXCEPT !.pc = "done",
                            !.ret = Result(FALSE, "Subtask created under parent task",
                                           <<Part("title", r.data.title),
                                             Part("parentTaskId", f.args.parentTaskId)>>)]
                    ELSE SubtaskError(f, "Error creating subtask: Could not create subtask")]
    /\ UNCHANGED <<taskLists, nextListId, initial>>

(***************************************************************************)
(* create (Tasks.ts 129-161), update (163-204) and delete (221-244): one   *)
(* check of the arguments and one remote call, whose failure is thrown on. *)
(***************************************************************************)
\* tasks.tasks.update: the same outcomes as a patch of the fields given.
RemoteUpdate(tl, t, body) == RemotePatch(tl, t, body)

\* The call failed and the rejection leaves the function.
Rejected(f) == [f EXCEPT !.pc = "done", !.ret = Thrown("remote")]

\* !taskTitle
CreateArgsMissing(a) == a.title = <<>>

Create(p) ==
    LET f == inv[p]
        taskListId == ListIdOrDefault(f.args)
        task == [title |-> f.args.title]
    IN
    /\ f.op = "create" /\ f.pc = "start"
    /\ IF CreateArgsMissing(f.args)
       THEN /\ inv' = [inv EXCEPT ![p] = [f EXCEPT !.pc = "done",
                                            !.ret = Thrown("Task title is required")]]
            /\ UNCHANGED <<calls, store, nextId>>
       ELSE \E r \in RemoteInsert(taskListId, task, 0) :
            /\ calls' = Append(calls, Call(p, 0, "tasks.insert", taskListId, 0, task, 0,
                                           r.ok, r.data))
            /\ store' = r.store
            /\ nextId' = r.nextId
            /\ inv' = [inv EXCEPT ![p] =
                         IF r.ok
                         THEN [f EXCEPT !.pc = "done",
                                 !.ret = Result(FALSE, "Task created",
                                                <<Part("title", r.data.title)>>)]
                         ELSE Rejected(f)]
    /\ UNCHANGED <<taskLists, nextListId, initial>>

\* !taskUri, then !taskId
UpdateArgsMissing(a) == a.uri = 0 \/ a.id = 0

Update(p) ==
    LET f == inv[p]
        taskListId == ListIdOrDefault(f.args)
        task == IF f.args.title = <<>> THEN [id |-> f.args.id]
                ELSE [id |-> f.args.id, title |-> f.args.title]
    IN
    /\ f.op = "update" /\ f.pc = "start"
    /\ IF UpdateArgsMissing(f.args)
       THEN /\ inv' = [inv EXCEPT ![p] = [f EXCEPT !.pc = "done",
                         !.ret = Thrown(IF f.args.uri = 0 THEN "Task URI is required"
                                        ELSE "Task ID is required")]]
            /\ UNCHANGED <<calls, store>>
       ELSE \E r \in RemoteUpdate(taskListId, f.args.uri, task) :
            /\ calls' = Append(calls, Call(p, 0, "tasks.update", taskListId, f.args.uri,
                                           task, 0, r.ok, r.data))
            /\ store' = r.store
            /\ inv' = [inv EXCEPT ![p] =
                         IF r.ok
                         THEN [f EXCEPT !.pc = "done",
                                 !.ret = Result(FALSE, "Task updated",
                                                <<Part("title", r.data.title)>>)]
                         ELSE Rejected(f)]
    /\ UNCHANGED <<taskLists, nextId, nextListId, initial>>

\* !taskId
DeleteArgsMissing_Never(a) == FALSE

DeleteArgsMissing(a) == a.id = 0

Delete(p) ==
    LET f == inv[p]
        taskListId == ListIdOrDefault(f.args)
    IN
    /\ f.op = "delete" /\ f.pc = "start"
    /\ IF DeleteArgsMissing(f.args)
       THEN /\ inv' = [inv EXCEPT ![p] = [f EXCEPT !.pc = "done",
                                            !.ret = Thrown("Task URI is required")]]
            /\ UNCHANGED <<calls, store>>
       ELSE \E r \in RemoteDelete(taskListId, f.args.id) :
            /\ calls' = Append(calls, Call(p, 0, "tasks.delete", taskListId, f.args.id,
                                           NoBody, 0, r.ok, NoTask))
            /\ store' = r.store
            /\ inv' = [inv EXCEPT ![p] =
                         IF r.ok
                         THEN [f EXCEPT !.pc = "done",
                                 !.ret = Result(FALSE, "Task deleted",
                                                <<Part("taskId", f.args.id)>>)]
                         ELSE Rejected(f)]
    /\ UNCHANGED <<taskLists, nextId, nextListId, initial>>

(***************************************************************************)
(* Remote states and inputs the specifications start from.                 *)
(***************************************************************************)
TitleXFoo == <<"[", "X", "]", "f">>

TitleBar == <<"b">>

ListsAB == <<[id |-> "A", title |-> <<"A">>], [id |-> "B", title |-> <<"B">>]>>

\* Tasks with every combination of the optional fields the copy defaults.
SourceTasks ==
    {[id |-> 1, title |-> t, notes |-> n, due |-> d, status |-> s, parent |-> 0] :
        t \in {TitleXFoo, <<>>}, n \in {"", "note"}, d \in {"", "2025-01-01"},
        s \in {"", "completed"}}

MoveTaskInputs ==
    [sourceTaskListId : {"A", ""}, targetTaskListId : {"B", "A", "Z"}, taskId : {0, 1, 7}]

InitMove ==
    /\ taskLists = ListsAB
    /\ \E t \in SourceTasks : store = [l \in {"A", "B"} |-> IF l = "A" THEN <<t>> ELSE <<>>]
    /\ nextId = 2
    /\ nextListId = 1
    /\ initial = [taskLists |-> taskLists, store |-> store]
    /\ calls = <<>>
    /\ \E a \in MoveTaskInputs : inv = [p \in {1} |-> Frame("moveTask", a)]

NextMove ==
    \/ \E p \in Procs : MoveTaskGet(p)
    \/ \E p \in Procs : MoveTaskInsert(p)
    \/ \E p \in Procs : MoveTaskDelete(p)

SpecMove == InitMove /\ [][NextMove]_vars

\* A task without title, as the remote may hold one.
UntitledTask ==
    [id |-> 2, title |-> <<>>, notes |-> "", due |-> "", status |-> "needsAction",
     parent |-> 0]

\* The same task with notes and a due date, and without status.
DatedTask ==
    [id |-> 1, title |-> TitleXFoo, notes |-> "note", due |-> "2025-01-01", status |-> "",
     parent |-> 0]

TitledTask ==
    [id |-> 1, title |-> TitleXFoo, notes |-> "", due |-> "", status |-> "needsAction",
     parent |-> 0]

\* The descriptors the batch inputs are built from: for every operation valid
\* ones, one that names something the remote does not have, and one that lacks
\* a required field.
Descriptors(op) ==
    CASE op = "batchCreateTasks" ->
            {[title |-> TitleBar], [taskListId |-> "Z", title |-> TitleBar],
             [taskListId |-> "A"]}
      [] op = "batchUpdateTasks" ->
            {[taskListId |-> "A", taskId |-> 1, title |-> TitleBar],
             [taskListId |-> "A", taskId |-> 7], [taskListId |-> "A"]}
      [] op = "batchDeleteTasks" ->
            {[taskListId |-> "A", taskId |-> 1], [taskListId |-> "A", taskId |-> 2],
             [taskListId |-> "A"]}
      [] op = "batchMoveTasks" ->
            {[sourceTaskListId |-> "A", targetTaskListId |-> "B", taskId |-> 1],
             [sourceTaskListId |-> "A", targetTaskListId |-> "B", taskId |-> 2],
             [sourceTaskListId |-> "A", targetTaskListId |-> "B"]}
      [] op = "batchCreateTaskLists" -> {[title |-> <<"C">>], [title |-> <<>>]}
      [] op = "batchUpdateTaskLists" ->
            {[listId |-> "A", title |-> <<"C">>], [listId |-> "Z", title |-> <<"C">>],
             [listId |-> "A"]}
      [] op = "batchDeleteTaskLists" ->
            {[listId |-> "B"], [listId |-> "Z"], [listId |-> ""]}
      [] op = "batchCreateSubtasks" ->
            {[parentTaskId |-> 1, title |-> TitleBar],
             [taskListId |-> "B", parentTaskId |-> 1, title |-> TitleBar],
             [title |-> TitleBar]}

\* The arrays of at most MaxBatch descriptors, the empty one included.
BatchInputs(op) == UNION {[1..n -> Descriptors(op)] : n \in 0..MaxBatch}

\* The argument bags: the array under its key, no array at all, or under the
\* key an object that is not an array.
BatchArgs(op) ==
    {[k \in {ArgKey(op)} |-> b] : b \in BatchInputs(op)}
    \cup {[dryRun |-> FALSE]}
    \cup {[k \in {ArgKey(op), "notArray"} |-> IF k = "notArray" THEN TRUE ELSE <<d>>] :
             d \in Descriptors(op)}

InitBatch ==
    /\ taskLists = ListsAB
    /\ \E t \in {TitledTask, DatedTask} :
          store = [l \in {"A", "B"} |-> IF l = "A" THEN <<t, UntitledTask>> ELSE <<>>]
    /\ nextId = 3
    /\ nextListId = 1
    /\ initial = [taskLists |-> taskLists, store |-> store]
    /\ calls = <<>>
    /\ \E op \in BatchOps : \E a \in BatchArgs(op) : inv = [p \in {1} |-> Frame(op, a)]

NextBatch ==
    \/ \E p \in Procs : BatchBegin(p)
    \/ \E p \in Procs : BatchInvalidElement(p)
    \/ \E p \in Procs : BatchCreateTasks(p)
    \/ \E p \in Procs : BatchUpdateTasks(p)
    \/ \E p \in Procs : BatchDeleteTasks(p)
    \/ \E p \in Procs : BatchMoveGet(p)
    \/ \E p \in Procs : BatchMoveInsert(p)
    \/ \E p \in Procs : BatchMoveDelete(p)
    \/ \E p \in Procs : BatchCreateTaskLists(p)
    \/ \E p \in Procs : BatchUpdateTaskLists(p)
    \/ \E p \in Procs : BatchDeleteTaskLists(p)
    \/ \E p \in Procs : BatchCreateSubtasksGet(p)
    \/ \E p \in Procs : BatchCreateSubtasksInsert(p)
    \/ \E p \in Procs : BatchReturn(p)

SpecBatch == InitBatch /\ [][NextBatch]_vars

TitleYBar == <<"[", "Y", "]", "g">>

\* The tasks of list A: at most MaxTasks tasks, routed by prefix or not.
ReorgSourceTasks ==
    UNION {[1..n -> {TitleXFoo, TitleBar}] : n \in 0..MaxTasks}

TaskTitled(id, title) ==
    [id |-> id, title |-> title, notes |-> "", due |-> "", status |-> "needsAction",
     parent |-> 0]

\* The members a prefix mapping is built from: a target that is another list,
\* a target that is the list the routed task may be in, a target that does not
\* exist.
MappingMembers ==
    {[prefix |-> <<"X">>, title |-> <<"B">>], [prefix |-> <<"Y">>, title |-> <<"A">>],
     [prefix |-> <<"X">>, title |-> <<"Z">>]}

PrefixMappings == UNION {[1..n -> MappingMembers] : n \in 0..MaxMappings}

ReorgArgs ==
    [prefixMappings : PrefixMappings, dryRun : BOOLEAN] \cup {[dryRun |-> FALSE]}

\* The tasks reorganizeTasks finds: the second one with notes and a due date
\* and without status, the others with a status only.
ReorgTask(i, title) ==
    IF i = 2
    THEN [TaskTitled(i, title) EXCEPT !.notes = "note", !.due = "2025-01-01", !.status = ""]
    ELSE TaskTitled(i, title)

InitReorg ==
    /\ taskLists = ListsAB
    /\ \E ts \in ReorgSourceTasks :
       \E other \in {<<>>, <<TaskTitled(MaxTasks + 1, TitleYBar)>>} :
          store = [l \in {"A", "B"} |->
                     IF l = "A" THEN [i \in 1..Len(ts) |-> ReorgTask(i, ts[i])]
                     ELSE other]
    /\ nextId = MaxTasks + 2
    /\ nextListId = 1
    /\ initial = [taskLists |-> taskLists, store |-> store]
    /\ calls = <<>>
    /\ \E a \in ReorgArgs : inv = [p \in {1} |-> Frame("reorganizeTasks", a)]

NextReorg ==
    \/ \E p \in Procs : ReorgBegin(p)
    \/ \E p \in Procs : ReorgListTasks(p)
    \/ \E p \in Procs : ReorgPlan(p)
    \/ \E p \in Procs : ReorgInsert(p)
    \/ \E p \in Procs : ReorgDelete(p)

SpecReorg == InitReorg /\ [][NextReorg]_vars

(***************************************************************************)
(* Titles, task lists and mappings that exercise the planning of           *)
(* reorganizeTasks: one task in the first list, the other lists empty.     *)
(***************************************************************************)
TitleAdminRenew == <<"[", "A", "D", "M", "I", "N", "]", " ", "r">>

TitleLowerAdmin == <<"[", "a", "d", "m", "i", "n", "]", " ", "r">>

TitleSpaceAdmin == <<" ", "[", "A", "D", "M", "I", "N", "]", " ", "r">>

TitleOpenAdmin == <<"[", "A", "D", "M", "I", "N", " ", "r">>

TitleBuyMilk == <<"B", "u", "y", " ", "m", "i", "l", "k">>

\* A title that starts with "[1]" and with "[1]]".
TitleOneBrackets == <<"[", "1", "]", "]", " ", "x">>

PlanTitles ==
    {TitleAdminRenew, TitleLowerAdmin, TitleSpaceAdmin, TitleOpenAdmin, TitleBuyMilk,
     TitleOneBrackets}

Inbox == <<"I", "n", "b", "o", "x">>

Admin == <<"A", "d", "m", "i", "n">>

Work == <<"W", "o", "r", "k">>

Nowhere == <<"N", "o", "w", "h", "e", "r", "e">>

ListsTitled(b, c) ==
    <<[id |-> "A", title |-> Inbox], [id |-> "B", title |-> b], [id |-> "C", title |-> c]>>

\* The task lists: an "Admin" list; one titled in another case and padded; two
\* whose titles differ in case only; one whose lowercased title is a name of
\* Object.prototype.
PlanLists ==
    {ListsTitled(Admin, Work),
     ListsTitled(<<" ", "A", "D", "M", "I", "N", " ">>, Work),
     ListsTitled(Admin, <<"A", "D", "M", "I", "N">>),
     ListsTitled(<<"C", "o", "n", "s", "t", "r", "u", "c", "t", "o", "r">>, Work)}

\* The members the mappings are built from: prefixes that one title can start
\* with together ("1" and "1]"), one of them an array index; targets that
\* exist exactly, up to case and padding, not at all, or are the task's list.
PlanMembers ==
    {[prefix |-> <<"A", "D", "M", "I", "N">>, title |-> Admin],
     [prefix |-> <<"A", "D", "M", "I", "N">>, title |-> <<" ", "a", "d", "m", "i", "n">>],
     [prefix |-> <<"A", "D", "M", "I", "N">>, title |-> <<"c", "o", "n", "s", "t", "r", "u", "c", "t", "o", "r">>],
     [prefix |-> <<"1">>, title |-> Admin],
     [prefix |-> <<"1">>, title |-> Nowhere],
     [prefix |-> <<"1">>, title |-> Inbox],
     [prefix |-> <<"1", "]">>, title |-> Work]}

PlanMappings == UNION {[1..n -> PlanMembers] : n \in 0..MaxMappings}

PlanArgs == [prefixMappings : PlanMappings, dryRun : BOOLEAN]

InitPlan ==
    /\ taskLists \in PlanLists
    /\ \E t \in PlanTitles :
          store = [l \in {"A", "B", "C"} |->
                     IF l = "A" THEN <<TaskTitled(1, t)>> ELSE <<>>]
    /\ nextId = 2
    /\ nextListId = 1
    /\ initial = [taskLists |-> taskLists, store |-> store]
    /\ calls = <<>>
    /\ \E a \in PlanArgs : inv = [p \in {1} |-> Frame("reorganizeTasks", a)]

SpecPlan == InitPlan /\ [][NextReorg]_vars

(***************************************************************************)
(* A list of parents, children and grandchildren for the subtask           *)
(* operations.                                                             *)
(***************************************************************************)
\* The tasks 1..n of list A, each top-level or under a task before it.
RECURSIVE Families(_)
Families(n) ==
    IF n = 0 THEN {<<>>}
    ELSE {Append(s, [TaskTitled(n, TitleBar) EXCEPT !.parent = par]) :
            s \in Families(n - 1), par \in 0..(n - 1)}

SubtaskArgs ==
    [taskListId : {"A", "B", ""}, taskId : 0..MaxFamily, parentTaskId : 0..MaxFamily]

CreateSubtaskArgs ==
    [taskListId : {"A", "B", ""}, parentTaskId : 0..MaxFamily, title : {TitleBar, <<>>}]

InitSubtask ==
    /\ taskLists = ListsAB
    /\ \E ts \in Families(MaxFamily) :
          store = [l \in {"A", "B"} |-> IF l = "A" THEN ts ELSE <<>>]
    /\ nextId = MaxFamily + 1
    /\ nextListId = 1
    /\ initial = [taskLists |-> taskLists, store |-> store]
    /\ calls = <<>>
    /\ \/ \E op \in {"makeSubtask", "listSubtasks"} : \E a \in SubtaskArgs :
             inv = [p \in {1} |-> Frame(op, a)]
       \/ \E a \in CreateSubtaskArgs : inv = [p \in {1} |-> Frame("createSubtask", a)]

NextSubtask ==
    \/ \E p \in Procs : MakeSubtaskGetTask(p)
    \/ \E p \in Procs : MakeSubtaskGetParent(p)
    \/ \E p \in Procs : MakeSubtaskMove(p)
    \/ \E p \in Procs : ListSubtasksList(p)
    \/ \E p \in Procs : ListSubtasksGet(p)
    \/ \E p \in Procs : CreateSubtaskGet(p)
    \/ \E p \in Procs : CreateSubtaskInsert(p)

SpecSubtask == InitSubtask /\ [][NextSubtask]_vars

(***************************************************************************)
(* The single-entity operations on one list of two tasks.                  *)
(***************************************************************************)
EntityArgs(op) ==
    CASE op = "create" -> [taskListId : {"A", "Z", ""}, title : {TitleBar, <<>>}]
      [] op = "update" ->
            [taskListId : {"A", ""}, uri : {0, 1, 7}, id : {0, 1}, title : {TitleBar, <<>>}]
      [] op = "delete" -> [taskListId : {"A", "B", ""}, id : {0, 1, 2, 7}]

InitEntity ==
    /\ taskLists = ListsAB
    /\ store = [l \in {"A", "B"} |-> IF l = "A" THEN <<TitledTask, UntitledTask>> ELSE <<>>]
    /\ nextId = 3
    /\ nextListId = 1
    /\ initial = [taskLists |-> taskLists, store |-> store]
    /\ calls = <<>>
    /\ \E op \in {"create", "update", "delete"} : \E a \in EntityArgs(op) :
          inv = [p \in {1} |-> Frame(op, a)]

NextEntity ==
    \/ \E p \in Procs : Create(p)
    \/ \E p \in Procs : Update(p)
    \/ \E p \in Procs : Delete(p)

(***************************************************************************)
(* Every tool the dispatcher (index.ts 598-680) routes to the operations   *)
(* above, one invocation at a time.                                        *)
(***************************************************************************)
InitTools == InitMove \/ InitBatch \/ InitReorg \/ InitSubtask \/ InitEntity

NextTools == NextMove \/ NextBatch \/ NextReorg \/ NextSubtask \/ NextEntity

SpecTools == InitTools /\ [][NextTools]_vars

\* Every remote call is answered in the end, so the handler that awaits it
\* goes on: a step that can be taken is taken.
SpecToolsFair == SpecTools /\ WF_vars(NextTools)

(***************************************************************************)
(* Two invocations in flight at once: the server starts the handler of a   *)
(* request without waiting for the one before it (index.ts 598-680), so    *)
(* their stretches between awaits interleave.                              *)
(***************************************************************************)
MoveOne == [sourceTaskListId |-> "A", targetTaskListId |-> "B", taskId |-> 1]

\* The invocations a pair is made of: a moveTask, two batches with a valid
\* and an invalid or failing element, and a live reorganizeTasks, all after
\* the same task.
PairFrames ==
    {Frame("moveTask", MoveOne),
     Frame("batchMoveTasks",
           [tasks |-> <<MoveOne, [sourceTaskListId |-> "A", targetTaskListId |-> "B"]>>]),
     Frame("batchDeleteTasks",
           [tasks |-> <<[taskListId |-> "A", taskId |-> 1],
                        [taskListId |-> "A", taskId |-> 2]>>]),
     Frame("reorganizeTasks",
           [prefixMappings |-> <<[prefix |-> <<"X">>, title |-> <<"B">>]>>,
            dryRun |-> FALSE])}

InitPair ==
    /\ taskLists = ListsAB
    /\ store = [l \in {"A", "B"} |-> IF l = "A" THEN <<TitledTask, UntitledTask>> ELSE <<>>]
    /\ nextId = 3
    /\ nextListId = 1
    /\ initial = [taskLists |-> taskLists, store |-> store]
    /\ calls = <<>>
    /\ inv \in [{1, 2} -> PairFrames]

NextPair ==
    \/ \E p \in Procs : MoveTaskGet(p)
    \/ \E p \in Procs : MoveTaskInsert(p)
    \/ \E p \in Procs : MoveTaskDelete(p)
    \/ \E p \in Procs : BatchBegin(p)
    \/ \E p \in Procs : BatchInvalidElement(p)
    \/ \E p \in Procs : BatchDeleteTasks(p)
    \/ \E p \in Procs : BatchMoveGet(p)
    \/ \E p \in Procs : BatchMoveInsert(p)
    \/ \E p \in Procs : BatchMoveDelete(p)
    \/ \E p \in Procs : BatchReturn(p)
    \/ \E p \in Procs : ReorgBegin(p)
    \/ \E p \in Procs : ReorgListTasks(p)
    \/ \E p \in Procs : ReorgPlan(p)
    \/ \E p \in Procs : ReorgInsert(p)
    \/ \E p \in Procs : ReorgDelete(p)

SpecPair == InitPair /\ [][NextPair]_vars

(***************************************************************************)
(* The same reorganizeTasks request twice: first with dryRun, and when     *)
(* that has returned, live.                                                *)
(***************************************************************************)
InitDryLive ==
    /\ taskLists = ListsAB
    /\ \E ts \in ReorgSourceTasks :
          store = [l \in {"A", "B"} |->
                     IF l = "A" THEN [i \in 1..Len(ts) |-> ReorgTask(i, ts[i])]
                     ELSE <<TaskTitled(MaxTasks + 1, TitleYBar)>>]
    /\ nextId = MaxTasks + 2
    /\ nextListId = 1
    /\ initial = [taskLists |-> taskLists, store |-> store]
    /\ calls = <<>>
    /\ \E m \in PrefixMappings \ {<<>>} :
          inv = <<Frame("reorganizeTasks", [prefixMappings |-> m, dryRun |-> TRUE])>>

\* The client sends the request again, now without dryRun.
GoLive ==
    /\ Len(inv) = 1 /\ inv[1].pc = "done"
    /\ inv' = Append(inv, Frame("reorganizeTasks",
                                [prefixMappings |-> inv[1].args.prefixMappings,
                                 dryRun |-> FALSE]))
    /\ UNCHANGED <<remoteVars, initial, calls>>

NextDryLive ==
    \/ \E p \in Procs : ReorgBegin(p)
    \/ \E p \in Procs : ReorgListTasks(p)
    \/ \E p \in Procs : ReorgPlan(p)
    \/ \E p \in Procs : ReorgInsert(p)
    \/ \E p \in Procs : ReorgDelete(p)
    \/ GoLive

SpecDryLive == InitDryLive /\ [][NextDryLive]_vars

(***************************************************************************)
(* TaskResources.list (Tasks.ts 47-84) behind the ListResources handler    *)
(* (index.ts 33-43), and the client that resumes with the cursor it got.   *)
(***************************************************************************)
pageSize == 10

\* The page of a list that starts after the first o tasks, with the token of
\* the page after it when there is one.
PageFrom(tl, o, maxResults) ==
    LET ts == TasksOf(tl)
        last == IF o + maxResults < Len(ts) THEN o + maxResults ELSE Len(ts)
    IN [ok |-> TRUE,
        items |-> IF o >= Len(ts) THEN <<>> ELSE SubSeq(ts, o + 1, last),
        nextPageToken |-> IF o + maxResults < Len(ts)
                          THEN [list |-> Resolve(tl), offset |-> o + maxResults]
                          ELSE NoToken]

\* tasks.tasks.list({tasklist, maxResults, pageToken}): a failure, or a page.
\* Without token the page is the first one; with a token of this list it is
\* the page the token stands for.  What the service does with a token another
\* list issued is not determined by the program: it may refuse it, ignore it
\* (the first page), or read it as a position in this list.
RemoteListPage(tl, maxResults, pageToken) ==
    {[ok |-> FALSE, items |-> <<>>, nextPageToken |-> NoToken]}
    \cup (IF Resolve(tl) \notin ListIds THEN {}
          ELSE IF pageToken = NoToken THEN {PageFrom(tl, 0, maxResults)}
          ELSE IF pageToken.list = Resolve(tl)
               THEN {PageFrom(tl, pageToken.offset, maxResults)}
          ELSE {PageFrom(tl, o, maxResults) : o \in {0, pageToken.offset}})

\* The parameters of every tasks.list call of one pass.
ListParams(cursor) ==
    IF cursor = NoToken THEN [maxResults |-> pageSize]
    ELSE [maxResults |-> pageSize, pageToken |-> cursor]

\* What the handler answers: one resource per task, and the cursor.
ResourcesResult(allTasks, token) ==
    Result(FALSE, "resources",
           <<Part("resources", [i \in 1..Len(allTasks) |->
                                   [uri |-> allTasks[i].id, name |-> allTasks[i].title]]),
             Part("nextCursor", token)>>)

NextPageToken_First(old, r) == IF old # NoToken THEN old ELSE r.nextPageToken

\* if (tasksResponse.data.nextPageToken) nextPageToken = ...
NextPageToken(old, r) == IF r.nextPageToken # NoToken THEN r.nextPageToken ELSE old

\* The listing of the task lists; a failure is thrown on.
ListResourcesLists(p) ==
    LET f == inv[p] IN
    /\ f.op = "resources/list" /\ f.pc = "start"
    /\ \E r \in RemoteListLists(MAX_TASK_RESULTS) :
          /\ calls' = Append(calls, Call(p, 0, "tasklists.list", "", 0, NoBody, 0, r.ok,
                                         [items |-> r.items, nextPageToken |-> NoToken]))
          /\ inv' = [inv EXCEPT ![p] =
                       IF ~r.ok THEN Rejected(f)
                       ELSE IF r.items = <<>>
                            THEN [f EXCEPT !.pc = "done",
                                           !.ret = ResourcesResult(<<>>, NoToken)]
                       ELSE [f EXCEPT !.pc = "tasks", !.lists = r.items, !.idx = 1]]
    /\ UNCHANGED <<remoteVars, initial>>

\* One turn of the loop: a page of the next task list, fetched with the
\* cursor of the request; after the last list the function returns.
ListResourcesTasks(p) ==
    LET f == inv[p]
        taskList == f.lists[f.idx]
    IN
    /\ f.op = "resources/list" /\ f.pc = "tasks"
    /\ \E r \in RemoteListPage(taskList.id, pageSize, f.args.cursor) :
          LET allTasks == f.allTasks \o r.items
              token == NextPageToken(f.nextPageToken, r)
          IN
          /\ calls' = Append(calls, Call(p, f.idx, "tasks.list", taskList.id, 0,
                                         ListParams(f.args.cursor), 0, r.ok,
                                         [items |-> r.items,
                                          nextPageToken |-> r.nextPageToken]))
          /\ inv' = [inv EXCEPT ![p] =
                       IF ~r.ok THEN Rejected(f)
                       ELSE IF f.idx = Len(f.lists)
                            THEN [f EXCEPT !.pc = "done", !.allTasks = allTasks,
                                           !.nextPageToken = token,
                                           !.ret = ResourcesResult(allTasks, token)]
                       ELSE [f EXCEPT !.idx = f.idx + 1, !.allTasks = allTasks,
                                      !.nextPageToken = token]]
    /\ UNCHANGED <<remoteVars, initial>>

\* The cursor a returned listing handed out.
NextCursor(f) == f.ret.text[2].v

\* The client asks for the next page with the cursor of the last answer.
Resume ==
    LET f == inv[Len(inv)] IN
    /\ Len(inv) < MaxPasses
    /\ f.op = "resources/list" /\ f.pc = "done" /\ f.ret.kind = "result"
    /\ NextCursor(f) # NoToken
    /\ inv' = Append(inv, Frame("resources/list", [cursor |-> NextCursor(f)]))
    /\ UNCHANGED <<remoteVars, initial, calls>>

\* The tasks a listing starts from: list i holds n tasks of its own.
TasksNumbered(i, n) == [j \in 1..n |-> TaskTitled(i * 100 + j, TitleBar)]

ItemCounts == {0, 1, pageSize + 1, 2 * pageSize + 1}

\* Up to MaxLists task lists with every combination of the item counts, and
\* one account with more task lists than one page of tasklists.list holds.
ListingStores ==
    UNION {[{ToString(i) : i \in 1..n} -> ItemCounts] : n \in 0..MaxLists}
    \cup {[l \in {ToString(i) : i \in 1..(MAX_TASK_RESULTS + 1)} |-> 1]}

InitList ==
    /\ \E counts \in ListingStores :
          LET n == Cardinality(DOMAIN counts) IN
          /\ taskLists = [i \in 1..n |-> [id |-> ToString(i), title |-> <<"L">>]]
          /\ store = [l \in DOMAIN counts |->
                         LET i == CHOOSE k \in 1..n : ToString(k) = l
                         IN TasksNumbered(i, counts[l])]
    /\ nextId = 1
    /\ nextListId = 1
    /\ initial = [taskLists |-> taskLists, store |-> store]
    /\ calls = <<>>
    /\ inv = <<Frame("resources/list", [cursor |-> NoToken])>>

NextList ==
    \/ \E p \in Procs : ListResourcesLists(p)
    \/ \E p \in Procs : ListResourcesTasks(p)
    \/ Resume

SpecList == InitList /\ [][NextList]_vars

(***************************************************************************)
(* TaskResources.read (Tasks.ts 13-45) behind the ReadResource handler     *)
(* (index.ts 45-75).                                                       *)
(***************************************************************************)
\* request.params.uri.replace("gtasks:///", ""): the uri is given by its
\* scheme, which the replace removes when it is there, and the task id.
TaskIdOf(uri) == uri.id

\* What the handler answers: the uri asked for and the details of the task.
ReadResult(f, task) ==
    Result(FALSE, "resource", <<Part("uri", f.args.uri), Part("task", task)>>)

\* The end of the loop without a task.
NotFound(f) == [f EXCEPT !.pc = "done", !.ret = Thrown("Task not found")]

ReadNext_NoBreak(f, r) ==
    LET g == IF r.ok THEN [f EXCEPT !.originalTask = r.data] ELSE f IN
    IF f.idx < Len(f.lists) THEN [g EXCEPT !.idx = f.idx + 1]
    ELSE IF g.originalTask # NoTask
    THEN [g EXCEPT !.pc = "done", !.ret = ReadResult(g, g.originalTask)]
    ELSE NotFound(g)

\* The frame after the get of one task list: the task and the break, or the
\* next task list, or the end of the loop.
ReadNext(f, r) ==
    IF r.ok
    THEN [f EXCEPT !.pc = "done", !.originalTask = r.data, !.ret = ReadResult(f, r.data)]
    ELSE IF f.idx < Len(f.lists) THEN [f EXCEPT !.idx = f.idx + 1]
    ELSE NotFound(f)

\* The listing of the task lists; a failure is thrown on.
ReadLists(p) ==
    LET f == inv[p] IN
    /\ f.op = "resources/read" /\ f.pc = "start"
    /\ \E r \in RemoteListLists(MAX_TASK_RESULTS) :
          /\ calls' = Append(calls, Call(p, 0, "tasklists.list", "", 0, NoBody, 0, r.ok,
                                         [items |-> r.items, nextPageToken |-> NoToken]))
          /\ inv' = [inv EXCEPT ![p] =
                       IF ~r.ok THEN Rejected(f)
                       ELSE IF r.items = <<>> THEN NotFound(f)
                       ELSE [f EXCEPT !.pc = "probe", !.lists = r.items, !.idx = 1]]
    /\ UNCHANGED <<remoteVars, initial>>

\* One turn of the loop: the get of the task in the next task list.
ReadProbe(p) ==
    LET f == inv[p]
        taskList == f.lists[f.idx]
    IN
    /\ f.op = "resources/read" /\ f.pc = "probe"
    /\ \E r \in RemoteGet(taskList.id, TaskIdOf(f.args.uri)) :
          /\ calls' = Append(calls, Call(p, f.idx, "tasks.get", taskList.id,
                                         TaskIdOf(f.args.uri), NoBody, 0, r.ok, r.data))
          /\ inv' = [inv EXCEPT ![p] = ReadNext(f, r)]
    /\ UNCHANGED <<remoteVars, initial>>

\* Up to MaxLists + 1 task lists, each empty or with one task of its own.
ReadStores == UNION {[{ToString(i) : i \in 1..n} -> {0, 1}] : n \in 0..(MaxLists + 1)}

\* The uris asked for: of the task of each list, and of a task nowhere.
ReadUris ==
    [scheme : {"gtasks:///", ""}, id : {i * 100 + 1 : i \in 1..(MaxLists + 1)} \cup {7}]

InitRead ==
    /\ \E counts \in ReadStores :
          LET n == Cardinality(DOMAIN counts) IN
          /\ taskLists = [i \in 1..n |-> [id |-> ToString(i), title |-> <<"L">>]]
          /\ store = [l \in DOMAIN counts |->
                         LET i == CHOOSE k \in 1..n : ToString(k) = l
                         IN TasksNumbered(i, counts[l])]
    /\ nextId = 1
    /\ nextListId = 1
    /\ initial = [taskLists |-> taskLists, store |-> store]
    /\ calls = <<>>
    /\ \E uri \in ReadUris : inv = <<Frame("resources/read", [uri |-> uri])>>

NextRead ==
    \/ \E p \in Procs : ReadLists(p)
    \/ \E p \in Procs : ReadProbe(p)

SpecRead == InitRead /\ [][NextRead]_vars

(***************************************************************************)
(* Properties of the batch executors.                                      *)
(***************************************************************************)
\* The positions of the entries of a partition.
Elems(entries) == {entries[i].elem : i \in 1..Len(entries)}

\* How many entries all partitions together hold for element j.
EntriesFor(f, j) ==
    Cardinality({i \in 1..Len(f.results) : f.results[i].elem = j})
    + Cardinality({i \in 1..Len(f.errors) : f.errors[i].elem = j})
    + Cardinality({i \in 1..Len(f.warnings) : f.warnings[i].elem = j})

\* The batch executor returned its report (it did not throw).
BatchReported(p) ==
    inv[p].op \in BatchOps /\ Returned(p) /\ inv[p].ret.kind = "result"

\* C1: when a batch executor called with a non-empty array returns, the sizes
\* of results and errors (and warnings, which only batchMoveTasks fills) add up
\* to the number of input elements, and every element is in exactly one
\* partition.
C1_PartitionsCoverInput ==
    \A p \in Procs :
        BatchReported(p) =>
            LET f == inv[p] IN
            /\ Len(Batch(f)) > 0
            /\ Len(f.results) + Len(f.errors) + Len(f.warnings) = Len(Batch(f))
            /\ (f.op # "batchMoveTasks" => f.warnings = <<>>)
            /\ \A j \in 1..Len(Batch(f)) : EntriesFor(f, j) = 1
            /\ Mentions(f.ret, "succeeded", Len(f.results))
            /\ Mentions(f.ret, "failed", Len(f.errors))

C1_Witness ==
    \E p \in Procs :
        /\ BatchReported(p) /\ inv[p].op = "batchMoveTasks"
        /\ Len(inv[p].results) = 1 /\ Len(inv[p].errors) = 1
        /\ Len(inv[p].warnings) = 1

\* The remote calls an element of each operation goes through, in order.
ExpectedApis(op) ==
    CASE op = "batchCreateTasks" -> <<"tasks.insert">>
      [] op = "batchUpdateTasks" -> <<"tasks.patch">>
      [] op = "batchDeleteTasks" -> <<"tasks.delete">>
      [] op = "batchMoveTasks" -> <<"tasks.get", "tasks.insert", "tasks.delete">>
      [] op = "batchCreateTaskLists" -> <<"tasklists.insert">>
      [] op = "batchUpdateTaskLists" -> <<"tasklists.update">>
      [] op = "batchDeleteTaskLists" -> <<"tasklists.delete">>
      [] op = "batchCreateSubtasks" -> <<"tasks.get", "tasks.insert">>

\* The call let its element go on to the next step.
StepPassed(op, c) ==
    /\ c.ok
    /\ (op = "batchMoveTasks" /\ c.api = "tasks.get" => c.data.title # <<>>)
    /\ (op = "batchMoveTasks" /\ c.api = "tasks.insert" => c.data.id # 0)

\* The calls cs are what a valid element of op issues given its own responses:
\* the first step always, and each later step exactly when the one before it
\* passed.
OwnCallsOnly(op, cs) ==
    /\ Len(cs) >= 1 /\ Len(cs) <= Len(ExpectedApis(op))
    /\ \A k \in 1..Len(cs) : cs[k].api = ExpectedApis(op)[k]
    /\ \A k \in 1..(Len(cs) - 1) : StepPassed(op, cs[k])
    /\ (Len(cs) < Len(ExpectedApis(op)) => ~StepPassed(op, cs[Len(cs)]))

\* Element j of the frame has been gone through.
Processed(f, j) == j \in 1..Len(Batch(f)) /\ j < f.idx

\* C2: a failure of element i never stops the loop: once the executor returns
\* its report every element has been gone through, and every valid element,
\* whatever happened to the elements before it, has had exactly the remote
\* calls its own responses call for.
C2_BatchIsolation ==
    \A p \in Procs :
        inv[p].op \in BatchOps /\ inv[p].pc # "start" /\ inv[p].ret.kind # "thrown" =>
            LET f == inv[p] IN
            /\ (Returned(p) => f.idx = Len(Batch(f)) + 1)
            /\ \A j \in 1..Len(Batch(f)) :
                  (Processed(f, j) /\ ~ElemInvalid(f.op, Batch(f)[j])) =>
                      OwnCallsOnly(f.op, CallsOfElem(p, j))

C2_Witness ==
    \E p \in Procs :
        /\ BatchReported(p) /\ inv[p].op = "batchMoveTasks"
        /\ Len(Batch(inv[p])) = 3
        /\ 1 \in Elems(inv[p].errors) /\ ~ElemInvalid(inv[p].op, Batch(inv[p])[1])
        /\ 2 \in Elems(inv[p].warnings)
        /\ 3 \in Elems(inv[p].results)

\* C3: an element that lacks a required field is recorded as one errors entry
\* and no remote call is issued for it, while a valid element of the same
\* batch still has its remote call issued.
C3_InvalidElementNoCall ==
    \A p \in Procs :
        inv[p].op \in BatchOps /\ inv[p].pc # "start" /\ inv[p].ret.kind # "thrown" =>
            LET f == inv[p] IN
            \A j \in 1..Len(Batch(f)) :
                Processed(f, j) =>
                    IF ElemInvalid(f.op, Batch(f)[j])
                    THEN /\ CallsOfElem(p, j) = <<>>
                         /\ EntriesFor(f, j) = 1
                         /\ j \in Elems(f.errors)
                    ELSE CallsOfElem(p, j) # <<>>

\* batchDeleteTasks with a descriptor without taskId and a valid one: one
\* error, one success.
C3_Witness ==
    \E p \in Procs :
        /\ BatchReported(p) /\ inv[p].op = "batchDeleteTasks"
        /\ Len(Batch(inv[p])) = 2
        /\ ElemInvalid(inv[p].op, Batch(inv[p])[1])
        /\ Elems(inv[p].errors) = {1} /\ Elems(inv[p].results) = {2}
        /\ Apis(CallsOf(p)) = <<"tasks.delete">>

\* The outcome of the steps of element j of a batchMoveTasks frame.
MoveSteps(p, j) == CallsOfElem(p, j)

GetPassed(cs) == Len(cs) >= 1 /\ cs[1].ok /\ cs[1].data.title # <<>>

InsertPassed(cs) == Len(cs) >= 2 /\ cs[2].ok /\ cs[2].data.id # 0

DeletePassed(cs) == Len(cs) >= 3 /\ cs[3].ok

\* C4: in batchMoveTasks a valid element is in results exactly when get, insert
\* and delete all succeeded, in warnings exactly when get and insert (with an
\* id) succeeded and the delete failed, and in errors otherwise.
C4_MoveClassification ==
    \A p \in Procs :
        inv[p].op = "batchMoveTasks" /\ inv[p].pc # "start" /\ inv[p].ret.kind # "thrown" =>
            LET f == inv[p] IN
            \A j \in 1..Len(Batch(f)) :
                (Processed(f, j) /\ ~ElemInvalid(f.op, Batch(f)[j])) =>
                    LET cs == MoveSteps(p, j) IN
                    /\ j \in Elems(f.results) <=>
                          (GetPassed(cs) /\ InsertPassed(cs) /\ DeletePassed(cs))
                    /\ j \in Elems(f.warnings) <=>
                          (GetPassed(cs) /\ InsertPassed(cs) /\ Len(cs) = 3 /\ ~cs[3].ok)
                    /\ j \in Elems(f.errors) <=>
                          ~(GetPassed(cs) /\ InsertPassed(cs))

C4_Witness ==
    \E p \in Procs :
        /\ BatchReported(p) /\ inv[p].op = "batchMoveTasks"
        /\ \E j \in Elems(inv[p].warnings) : \E k \in Elems(inv[p].errors) :
              /\ ~ElemInvalid(inv[p].op, Batch(inv[p])[k])
              /\ InsertPassed(MoveSteps(p, j))
              /\ GetPassed(MoveSteps(p, k)) /\ ~InsertPassed(MoveSteps(p, k))

(***************************************************************************)
(* Properties of moveTask.                                                 *)
(***************************************************************************)
\* The frame went through get and insert, and its delete failed.
MovePartial(p) ==
    /\ inv[p].op = "moveTask"
    /\ Len(CallsOf(p)) = 3
    /\ CallsOf(p)[3].api = "tasks.delete" /\ ~CallsOf(p)[3].ok

\* C5: in moveTask, when get and insert succeed and the delete of the source
\* fails, no further call is issued (the copy is not rolled back), the item is
\* in both lists, and the operation returns a result with isError = FALSE.
C5_PartialNotRolledBack ==
    \A p \in Procs :
        MovePartial(p) =>
            /\ Apis(CallsOf(p)) = <<"tasks.get", "tasks.insert", "tasks.delete">>
            /\ HasTask(inv[p].args.sourceTaskListId, inv[p].args.taskId)
            /\ HasTask(inv[p].args.targetTaskListId, inv[p].newTaskId)
            /\ inv[p].newTaskId # inv[p].args.taskId
            /\ Returned(p)
            /\ inv[p].ret.kind = "result" /\ inv[p].ret.isError = FALSE

C5_Witness ==
    \E p \in Procs :
        /\ MovePartial(p) /\ Returned(p)
        /\ inv[p].args.sourceTaskListId # inv[p].args.targetTaskListId

\* C6: a moveTask that fails at the delete step reports both the new item's
\* identifier and its title in the output it returns.
C6_PartialReportsIdAndTitle ==
    \A p \in Procs :
        (MovePartial(p) /\ Returned(p)) =>
            /\ Mentions(inv[p].ret, "title", inv[p].originalTask.title)
            /\ Mentions(inv[p].ret, "taskId", inv[p].newTaskId)

\* The frame's get failed, or fetched a task without a title.
MoveGetFailed(p) ==
    /\ inv[p].op = "moveTask"
    /\ Len(CallsOf(p)) >= 1
    /\ CallsOf(p)[1].api = "tasks.get"
    /\ (~CallsOf(p)[1].ok \/ CallsOf(p)[1].data.title = <<>>)

\* C7: in moveTask, when the source item cannot be fetched or has no title,
\* the operation returns an error-flagged result, issues neither an insert nor
\* a delete, and the remote state is unchanged.
C7_GetFailureStops ==
    \A p \in Procs :
        MoveGetFailed(p) =>
            /\ Returned(p)
            /\ inv[p].ret.kind = "result" /\ inv[p].ret.isError = TRUE
            /\ Apis(CallsOf(p)) = <<"tasks.get">>
            /\ store = initial.store /\ taskLists = initial.taskLists

C7_Witness ==
    \E p \in Procs :
        /\ MoveGetFailed(p) /\ Returned(p)
        /\ CallsOf(p)[1].ok /\ CallsOf(p)[1].data.title = <<>>

\* The frame's insert failed, or answered without an id.
MoveInsertFailed(p) ==
    /\ inv[p].op = "moveTask"
    /\ Len(CallsOf(p)) >= 2
    /\ CallsOf(p)[2].api = "tasks.insert"
    /\ (~CallsOf(p)[2].ok \/ CallsOf(p)[2].data.id = 0)

\* C8: in moveTask, when the insert into the destination fails or returns no
\* identifier, the operation returns an error-flagged result and never issues
\* the delete, so the source item is still present.
C8_InsertFailureKeepsSource ==
    \A p \in Procs :
        MoveInsertFailed(p) =>
            /\ Returned(p)
            /\ inv[p].ret.kind = "result" /\ inv[p].ret.isError = TRUE
            /\ Apis(CallsOf(p)) = <<"tasks.get", "tasks.insert">>
            /\ HasTask(inv[p].args.sourceTaskListId, inv[p].args.taskId)

C8_Witness ==
    \E p \in Procs :
        /\ MoveInsertFailed(p) /\ Returned(p)
        /\ CallsOf(p)[2].ok /\ CallsOf(p)[2].data.id = 0

(***************************************************************************)
(* Properties of reorganizeTasks.                                          *)
(***************************************************************************)
ListingApis == {"tasklists.list", "tasks.list"}

\* The caller asked for a dry run.
DryRunAsked(p) ==
    /\ inv[p].op = "reorganizeTasks"
    /\ "dryRun" \in DOMAIN inv[p].args /\ inv[p].args.dryRun = TRUE

\* C9: reorganizeTasks with dryRun = true issues only list calls, no insert,
\* delete, update, patch or move, and leaves the remote tasks and task lists
\* as they were.
C9_DryRunMutatesNothing ==
    \A p \in Procs :
        DryRunAsked(p) =>
            /\ \A i \in 1..Len(CallsOf(p)) :
                  /\ CallsOf(p)[i].api \in ListingApis
                  /\ CallsOf(p)[i].api \notin MutatingApis
            /\ store = initial.store /\ taskLists = initial.taskLists

C9_Witness ==
    \E p \in Procs :
        /\ DryRunAsked(p) /\ Returned(p) /\ inv[p].ret.kind = "result"
        /\ ~inv[p].ret.isError
        /\ Len(inv[p].movePlans) >= 2

\* The live run returned its report.
LiveReported(p) ==
    /\ inv[p].op = "reorganizeTasks" /\ ~DryRunAsked(p)
    /\ Returned(p) /\ inv[p].ret.kind = "result" /\ ~inv[p].ret.isError

CountApi(cs, api) == Cardinality({i \in 1..Len(cs) : cs[i].api = api})

\* Every insert and delete the frame issued is the one of a plan: the insert
\* into the plan's target, the delete of the plan's task.
OnlyPlannedCalls(p) ==
    \A i \in 1..Len(CallsOf(p)) :
        LET c == CallsOf(p)[i] IN
        c.api \notin ListingApis =>
            /\ c.elem \in 1..Len(inv[p].movePlans)
            /\ c.api = "tasks.insert" =>
                  /\ c.tasklist = inv[p].movePlans[c.elem].targetListId
                  /\ c.body.title = inv[p].movePlans[c.elem].task.title
            /\ c.api = "tasks.delete" =>
                  /\ c.tasklist = inv[p].movePlans[c.elem].task.taskListId
                  /\ c.task = inv[p].movePlans[c.elem].task.id
            /\ c.api \in {"tasks.insert", "tasks.delete"}

\* C10 as stated: a live reorganizeTasks issues exactly one insert and exactly
\* one delete per planned transfer, and none for the items skipped in planning.
C10_OneInsertOneDeletePerPlan ==
    \A p \in Procs :
        LiveReported(p) =>
            /\ OnlyPlannedCalls(p)
            /\ \A i \in 1..Len(inv[p].movePlans) :
                  /\ CountApi(CallsOfElem(p, i), "tasks.insert") = 1
                  /\ CountApi(CallsOfElem(p, i), "tasks.delete") = 1

\* C10 as amended: a live reorganizeTasks issues exactly one insert per planned
\* transfer, and exactly one delete for a plan whose insert returned an id and
\* none for a plan whose insert failed or returned no id; it issues no insert
\* and no delete for the items skipped in planning.
C10_OneInsertDeleteAfterInsert ==
    \A p \in Procs :
        LiveReported(p) =>
            /\ OnlyPlannedCalls(p)
            /\ \A i \in 1..Len(inv[p].movePlans) :
                  LET cs == CallsOfElem(p, i) IN
                  /\ CountApi(cs, "tasks.insert") = 1
                  /\ cs[1].api = "tasks.insert"
                  /\ CountApi(cs, "tasks.delete") =
                        (IF cs[1].ok /\ cs[1].data.id # 0 THEN 1 ELSE 0)

\* Two plans, one whose insert failed, and a task that was skipped.
C10_Witness ==
    \E p \in Procs :
        /\ LiveReported(p)
        /\ Len(inv[p].movePlans) = 2
        /\ Len(inv[p].allTasks) > 2
        /\ ~CallsOfElem(p, 1)[1].ok
        /\ CountApi(CallsOfElem(p, 2), "tasks.delete") = 1

\* Every remote call of the frame succeeded, the inserts with an id.
AllCallsSucceeded(p) ==
    \A i \in 1..Len(CallsOf(p)) :
        /\ CallsOf(p)[i].ok
        /\ CallsOf(p)[i].api = "tasks.insert" => CallsOf(p)[i].data.id # 0

\* List A held the one task "[X] foo", list B nothing, and the mapping sends X
\* to the title of B.
OneRoutedTask(p) ==
    /\ initial.store["A"] = <<TaskTitled(1, TitleXFoo)>>
    /\ initial.store["B"] = <<>>
    /\ "prefixMappings" \in DOMAIN inv[p].args
    /\ {inv[p].args.prefixMappings[i] : i \in DOMAIN inv[p].args.prefixMappings}
          = {[prefix |-> <<"X">>, title |-> <<"B">>]}

\* C17: from list A holding one task titled "[X] foo" and list B empty, with
\* the mapping X -> B's title, dryRun false and every remote call succeeding,
\* after reorganizeTasks returns B holds a task with the same title and
\* another id, A no longer holds the original id, and the report counts 1
\* moved and 0 failed.
C17_OneTaskMoved ==
    \A p \in Procs :
        (LiveReported(p) /\ OneRoutedTask(p) /\ AllCallsSucceeded(p)) =>
            /\ \E i \in 1..Len(store["B"]) :
                  store["B"][i].title = TitleXFoo /\ store["B"][i].id # 1
            /\ \A i \in 1..Len(store["A"]) : store["A"][i].id # 1
            /\ \A r \in RemoteGet("A", 1) : ~r.ok
            /\ Mentions(inv[p].ret, "Summary", [succeeded |-> 1, failed |-> 0])

C17_Witness ==
    \E p \in Procs :
        /\ LiveReported(p) /\ OneRoutedTask(p) /\ AllCallsSucceeded(p)
        /\ CountApi(CallsOf(p), "tasks.insert") = 1
        /\ CountApi(CallsOf(p), "tasks.delete") = 1
        /\ store["A"] = <<>> /\ Len(store["B"]) = 1

(***************************************************************************)
(* Properties of the planning of reorganizeTasks.                          *)
(***************************************************************************)
\* The frame has made its plans.
Planned(p) ==
    /\ inv[p].op = "reorganizeTasks"
    /\ \/ inv[p].pc \in {"insert", "delete"}
       \/ Returned(p) /\ inv[p].ret.kind = "result" /\ ~inv[p].ret.isError

\* The members of the mapping the caller supplied.
MembersOf(p) == {inv[p].args.prefixMappings[i] : i \in DOMAIN inv[p].args.prefixMappings}

PrefixesOf(p) == {e.prefix : e \in MembersOf(p)}

\* The title has "[", the prefix, "]" as its first characters, letter for letter.
CarriesPrefix(title, prefix) ==
    /\ Len(title) >= Len(prefix) + 2
    /\ title[1] = "["
    /\ \A i \in 1..Len(prefix) : title[i + 1] = prefix[i]
    /\ title[Len(prefix) + 2] = "]"

\* The plans made for an enumerated task.
PlansFor(p, task) ==
    {i \in 1..Len(inv[p].movePlans) :
        /\ inv[p].movePlans[i].task.id = task.id
        /\ inv[p].movePlans[i].task.taskListId = task.taskListId}

\* The ids of the task lists with that title.
ListsWithTitle(p, title) ==
    {inv[p].lists[i].id : i \in {j \in 1..Len(inv[p].lists) : inv[p].lists[j].title = title}}

PrefixADMIN == <<"A", "D", "M", "I", "N">>

\* The mapping sends ADMIN to "Admin", the task's title starts with "[ADMIN]",
\* and a list is titled "Admin" while the task's own list is not.
AdminCase(p, task) ==
    /\ \E e \in MembersOf(p) : e.prefix = PrefixADMIN
    /\ \A e \in MembersOf(p) : e.prefix = PrefixADMIN => e.title = Admin
    /\ CarriesPrefix(task.title, PrefixADMIN)
    /\ ListsWithTitle(p, Admin) # {}
    /\ task.taskListId \notin ListsWithTitle(p, Admin)

\* C11: a task whose title carries none of the configured prefixes as
\* "[" + prefix + "]" at position 0, letter for letter, gets no move plan; a
\* task whose title starts with "[ADMIN]", under the mapping ADMIN -> "Admin"
\* and with a list titled "Admin" that is not its own, gets exactly one move
\* plan, to a list titled "Admin".
C11_PrefixMatchAnchoredExact ==
    \A p \in Procs :
        Planned(p) =>
            \A i \in 1..Len(inv[p].allTasks) :
                LET task == inv[p].allTasks[i] IN
                /\ (\A k \in PrefixesOf(p) : ~CarriesPrefix(task.title, k))
                      => PlansFor(p, task) = {}
                /\ AdminCase(p, task) =>
                      /\ Cardinality(PlansFor(p, task)) = 1
                      /\ \A j \in PlansFor(p, task) :
                            /\ inv[p].movePlans[j].targetListId \in ListsWithTitle(p, Admin)
                            /\ inv[p].movePlans[j].prefix = PrefixADMIN

\* The task "[ADMIN] r" planned to the "Admin" list, next to another mapping.
C11_Witness ==
    \E p \in Procs :
        /\ Planned(p)
        /\ Len(inv[p].allTasks) = 1
        /\ AdminCase(p, inv[p].allTasks[1])
        /\ Cardinality(PrefixesOf(p)) = 2
        /\ Len(inv[p].movePlans) = 1
        /\ inv[p].movePlans[1].targetListId = "B"

\* The ids of the task lists whose lowercased, trimmed title is that of title.
ListsWithNormalizedTitle(p, title) ==
    {inv[p].lists[i].id :
        i \in {j \in 1..Len(inv[p].lists) :
                 /\ inv[p].lists[j].title # <<>>
                 /\ Trim(ToLowerCase(inv[p].lists[j].title)) = Trim(ToLowerCase(title))}}

\* C12: the destination of a plan is a list whose title equals the mapping's
\* destination title exactly when there is such a list, and otherwise, when a
\* list has the same lowercased, trimmed title, it is such a list: a
\* destination title that differs from a list's title only in case or in
\* surrounding whitespace resolves to that list.
C12_ExactThenNormalized ==
    \A p \in Procs :
        Planned(p) =>
            \A i \in 1..Len(inv[p].movePlans) :
                LET plan == inv[p].movePlans[i]
                    exact == ListsWithTitle(p, plan.targetListTitle)
                    normalized == ListsWithNormalizedTitle(p, plan.targetListTitle)
                IN /\ exact # {} => plan.targetListId \in exact
                   /\ exact = {} /\ normalized # {} => plan.targetListId \in normalized

\* The prefixes of the mapping that the title carries.
CarriedPrefixes(p, task) == {k \in PrefixesOf(p) : CarriesPrefix(task.title, k)}

\* The inserts the frame issued for the plans of a task.
InsertsFor(p, task) ==
    {i \in 1..Len(CallsOf(p)) :
        /\ CallsOf(p)[i].api = "tasks.insert"
        /\ CallsOf(p)[i].elem \in PlansFor(p, task)}

\* C13: in one invocation of reorganizeTasks every enumerated task is in at
\* most one move plan, and at most one insert is issued for it.
C13_AtMostOnePlanPerTask ==
    \A p \in Procs :
        Planned(p) =>
            \A i \in 1..Len(inv[p].allTasks) :
                /\ Cardinality(PlansFor(p, inv[p].allTasks[i])) <= 1
                /\ Cardinality(InsertsFor(p, inv[p].allTasks[i])) <= 1

\* A title that carries two prefixes, both with a destination that exists and
\* is not the task's list, moved once.
C13_Witness ==
    \E p \in Procs :
        /\ LiveReported(p)
        /\ Len(inv[p].allTasks) = 1
        /\ Cardinality(CarriedPrefixes(p, inv[p].allTasks[1])) = 2
        /\ \A e \in MembersOf(p) : e.title \in {Admin, Work}
        /\ ListsWithTitle(p, Admin) # {} /\ ListsWithTitle(p, Work) # {}
        /\ Cardinality(PlansFor(p, inv[p].allTasks[1])) = 1
        /\ inv[p].successCount = 1

\* The entries of the mapping object, in the order the loop goes through
\* them, that the title carries.
RECURSIVE CarriedIn(_, _)
CarriedIn(entries, title) ==
    IF entries = <<>> THEN <<>>
    ELSE (IF CarriesPrefix(title, Head(entries).prefix) THEN <<Head(entries)>> ELSE <<>>)
         \o CarriedIn(Tail(entries), title)

CarriedEntries(p, task) ==
    CarriedIn(ObjectEntries(inv[p].args.prefixMappings), task.title)

\* The members, in the order the caller gave them, whose prefix the title
\* carries.
CallerCarried(p, task) == CarriedIn(inv[p].args.prefixMappings, task.title)

\* The first prefix the title carries, which is the first in the caller's
\* order and in the loop's order alike.
FirstCarried(p, task) ==
    IF /\ CarriedEntries(p, task) # <<>>
       /\ CallerCarried(p, task)[1] = CarriedEntries(p, task)[1]
    THEN <<CarriedEntries(p, task)[1]>>
    ELSE <<>>

\* No task list has that title, exactly or lowercased and trimmed.
Unresolvable(p, title) ==
    ListsWithTitle(p, title) = {} /\ ListsWithNormalizedTitle(p, title) = {}

\* C14: a task whose title matches a prefix whose destination title no lookup
\* resolves is skipped for the pass: the prefixes after it are not tried and
\* the task gets no move plan.
C14_UnresolvedSkipsItem ==
    \A p \in Procs :
        Planned(p) =>
            \A i \in 1..Len(inv[p].allTasks) :
                LET task == inv[p].allTasks[i]
                    first == FirstCarried(p, task)
                IN (first # <<>> /\ Unresolvable(p, first[1].title))
                      => PlansFor(p, task) = {}

\* The calls the frame issued for a task: the inserts and deletes of its plans.
MutationsFor(p, task) ==
    {i \in 1..Len(CallsOf(p)) :
        /\ CallsOf(p)[i].api \in MutatingApis
        /\ CallsOf(p)[i].elem \in PlansFor(p, task)}

\* C15: a task whose matching prefix resolves to the list the task is already
\* in is skipped: it gets no move plan and no insert or delete, whatever other
\* prefixes the mapping has.
C15_AlreadyPlacedSkipsItem ==
    \A p \in Procs :
        Planned(p) =>
            \A i \in 1..Len(inv[p].allTasks) :
                LET task == inv[p].allTasks[i]
                    first == FirstCarried(p, task)
                IN (/\ first # <<>>
                    /\ ListsWithTitle(p, first[1].title) = {task.taskListId})
                      => PlansFor(p, task) = {} /\ MutationsFor(p, task) = {}

\* The caller gave every prefix once.
DistinctKeys(members) ==
    \A i, j \in 1..Len(members) : members[i].prefix = members[j].prefix => i = j

\* The destination exists under exactly that title and is not the task's list.
Routable(p, task, title) ==
    ListsWithTitle(p, title) # {} /\ task.taskListId \notin ListsWithTitle(p, title)

\* C16: the prefixes are tried in the order the caller supplied them: when a
\* title carries several prefixes (each with a destination that exists and is
\* not the task's list), the plan is that of the prefix the caller gave first,
\* also when prefixes look like non-negative integers.
C16_CallerOrderDecides ==
    \A p \in Procs :
        (Planned(p) /\ DistinctKeys(inv[p].args.prefixMappings)) =>
            \A i \in 1..Len(inv[p].allTasks) :
                LET task == inv[p].allTasks[i]
                    carried == CallerCarried(p, task)
                IN (/\ carried # <<>>
                    /\ \A k \in 1..Len(carried) : Routable(p, task, carried[k].title))
                      => \A j \in PlansFor(p, task) :
                            /\ inv[p].movePlans[j].prefix = carried[1].prefix
                            /\ inv[p].movePlans[j].targetListTitle = carried[1].title

(***************************************************************************)
(* Properties of the enumeration (_list).                                  *)
(***************************************************************************)
\* The fetches of tasks a frame has issued, in order.
TaskFetches(p) == SelectSeq(CallsOf(p), LAMBDA c : c.api = "tasks.list")

\* {...task, taskListId, taskListTitle}
Annotated(task, list) ==
    [k \in DOMAIN task \cup {"taskListId", "taskListTitle"} |->
        IF k = "taskListId" THEN list.id
        ELSE IF k = "taskListTitle" THEN list.title
        ELSE task[k]]

\* The page of the tasks of a list as the remote held them when the frame
\* started: the enumeration changes nothing.
InitialPage(list) == FirstN(initial.store[list.id], MAX_TASK_RESULTS)

\* The view of the first n task lists: the pages of the lists whose fetch
\* succeeded, in the order of the lists.
RECURSIVE ViewOf(_, _, _)
ViewOf(lists, fetches, n) ==
    IF n = 0 THEN <<>>
    ELSE ViewOf(lists, fetches, n - 1)
         \o (IF fetches[n].ok
             THEN [i \in 1..Len(InitialPage(lists[n])) |->
                      Annotated(InitialPage(lists[n])[i], lists[n])]
             ELSE <<>>)

\* The frame is enumerating, or has enumerated and gone on.
Enumerating(p) ==
    /\ inv[p].op = "reorganizeTasks"
    /\ inv[p].pc = "listTasks" \/ Planned(p)

\* C19: the enumeration returns the tasks of every task list whose fetch
\* succeeded, in the order of the task lists and, within a list, in the
\* remote's order, each with the id and title of its list; a list whose fetch
\* fails adds nothing, and the enumeration goes on to the lists after it.
C19_EnumerationSkipsFailedLists ==
    \A p \in Procs :
        /\ Enumerating(p) =>
              LET fetches == TaskFetches(p)
                  lists == initial.taskLists
              IN /\ Len(fetches) <= Len(lists)
                 /\ \A k \in 1..Len(fetches) : fetches[k].tasklist = lists[k].id
                 /\ inv[p].allTasks = ViewOf(lists, fetches, Len(fetches))
                 /\ Planned(p) => Len(fetches) = Len(lists)
        /\ \A k \in 1..Len(CallsOf(p)) :
              (CallsOf(p)[k].api = "tasks.list" /\ ~CallsOf(p)[k].ok /\ k = Len(CallsOf(p)))
                 => inv[p].pc = "listTasks"

\* The fetch of the first list failed, that of the second succeeded, and the
\* view is the second list's task.
C19_Witness ==
    \E p \in Procs :
        /\ Enumerating(p)
        /\ Len(TaskFetches(p)) = 2
        /\ ~TaskFetches(p)[1].ok /\ TaskFetches(p)[2].ok
        /\ initial.store["A"] # <<>>
        /\ Len(inv[p].allTasks) = 1
        /\ inv[p].allTasks[1].taskListId = "B"
        /\ inv[p].allTasks[1].taskListTitle = <<"B">>

(***************************************************************************)
(* Properties of the subtask operations.                                   *)
(***************************************************************************)
\* The value the result's text gives under a tag.
PartValue(ret, k) == ret.text[CHOOSE i \in 1..Len(ret.text) : ret.text[i].k = k].v

\* listSubtasks returned its listing.
SubtasksListed(p) ==
    /\ inv[p].op = "listSubtasks" /\ Returned(p)
    /\ inv[p].ret.kind = "result" /\ ~inv[p].ret.isError

\* The page of the list the frame asked for: the remote does not change while
\* listSubtasks runs.
PageOf(p) == FirstN(TasksOf(ListSubtasksListId(inv[p].args)), MAX_TASK_RESULTS)

\* The positions in the page of the tasks directly under the parent.
ChildrenIn(page, parentTaskId) == {i \in 1..Len(page) : page[i].parent = parentTaskId}

\* C18: listSubtasks returns exactly the tasks of the fetched page whose
\* parent is the requested parentTaskId, each once and in the page's order:
\* no grandchild, no task with another parent, no top-level task; and the
\* count it reports is their number.
C18_OnlyDirectChildren ==
    \A p \in Procs :
        SubtasksListed(p) =>
            LET listed == PartValue(inv[p].ret, "subtasks")
                parentTaskId == inv[p].args.parentTaskId
                children == ChildrenIn(PageOf(p), parentTaskId)
            IN /\ \A i \in 1..Len(listed) :
                     /\ listed[i].parent = parentTaskId
                     /\ \E j \in children : PageOf(p)[j] = listed[i]
               /\ \A j \in children : \E i \in 1..Len(listed) : listed[i] = PageOf(p)[j]
               /\ \A i, j \in 1..Len(listed) : listed[i].id = listed[j].id => i = j
               /\ PartValue(inv[p].ret, "Found") = Cardinality(children)
               /\ PartValue(inv[p].ret, "Found") = Len(listed)

\* A page with a child, a grandchild and an unrelated top-level task: only the
\* child is returned.
C18_Witness ==
    \E p \in Procs :
        /\ SubtasksListed(p)
        /\ PartValue(inv[p].ret, "Found") = 1
        /\ \E c, g, u \in 1..Len(PageOf(p)) :
              /\ PageOf(p)[c].parent = inv[p].args.parentTaskId
              /\ PageOf(p)[g].parent = PageOf(p)[c].id
              /\ PageOf(p)[u].parent = 0 /\ PageOf(p)[u].id # inv[p].args.parentTaskId

\* The calls a makeSubtask frame has issued.
MakeSubtaskCalls(p) == IF inv[p].op = "makeSubtask" THEN CallsOf(p) ELSE <<>>

\* C20: makeSubtask issues the reparent call only after the fetch of the task
\* and then the fetch of the parent, both in the given list, have succeeded;
\* when either fetch fails it returns an error-flagged result and issues no
\* reparent call; when the reparent call fails it returns an error-flagged
\* result.
C20_ReparentAfterBothFetches ==
    \A p \in Procs :
        LET cs == MakeSubtaskCalls(p)
            a == inv[p].args
        IN /\ \A i \in 1..Len(cs) :
                 cs[i].api = "tasks.move" =>
                    /\ i = 3
                    /\ cs[1].api = "tasks.get" /\ cs[1].ok
                    /\ cs[1].tasklist = a.taskListId /\ cs[1].task = a.taskId
                    /\ cs[2].api = "tasks.get" /\ cs[2].ok
                    /\ cs[2].tasklist = a.taskListId /\ cs[2].task = a.parentTaskId
                    /\ cs[3].tasklist = a.taskListId /\ cs[3].task = a.taskId
                    /\ cs[3].parent = a.parentTaskId
           /\ (cs # <<>> /\ ~cs[Len(cs)].ok) =>
                 /\ Returned(p)
                 /\ inv[p].ret.kind = "result" /\ inv[p].ret.isError
                 /\ cs[Len(cs)].api = "tasks.get" =>
                       \A i \in 1..Len(cs) : cs[i].api # "tasks.move"

\* The fetch of the task succeeded, the fetch of the parent failed, and the
\* frame returned its error without a reparent call.
C20_Witness ==
    \E p \in Procs :
        /\ inv[p].op = "makeSubtask" /\ Returned(p)
        /\ Len(CallsOf(p)) = 2
        /\ CallsOf(p)[1].ok /\ ~CallsOf(p)[2].ok
        /\ inv[p].ret.kind = "result" /\ inv[p].ret.isError
        /\ store = initial.store

\* The calls are a successful fetch of the parent in the list and then, at
\* most, an insert into that list with the parent as a parameter of the call
\* and not as a field of the body.
ParentFetchedFirst(cs, taskListId, parentTaskId) ==
    /\ Len(cs) <= 2
    /\ \A i \in 1..Len(cs) :
          /\ i = 1 =>
                /\ cs[i].api = "tasks.get"
                /\ cs[i].tasklist = taskListId /\ cs[i].task = parentTaskId
          /\ i = 2 =>
                /\ cs[1].ok
                /\ cs[i].api = "tasks.insert"
                /\ cs[i].tasklist = taskListId
                /\ cs[i].parent = parentTaskId
                /\ "parent" \notin DOMAIN cs[i].body

\* The fetch of the parent failed.
ParentFetchFailed(cs) == cs # <<>> /\ ~cs[1].ok

\* C21: createSubtask and each element of batchCreateSubtasks issue the
\* insert only after the fetch of the parent in the target list succeeded,
\* with the parent as a parameter of the call and never in the body; when the
\* fetch fails no insert is issued and the outcome is an error: an
\* error-flagged result, or an entry of errors for the element.
C21_SubtaskInsertAfterParentFetch ==
    \A p \in Procs :
        LET f == inv[p] IN
        /\ f.op = "createSubtask" =>
              /\ ParentFetchedFirst(CallsOf(p), ListIdOrDefault(f.args), f.args.parentTaskId)
              /\ ParentFetchFailed(CallsOf(p)) =>
                    /\ Len(CallsOf(p)) = 1
                    /\ Returned(p) /\ f.ret.kind = "result" /\ f.ret.isError
        /\ (f.op = "batchCreateSubtasks" /\ ~BatchArgInvalid(f)) =>
              \A j \in 1..Len(Batch(f)) :
                 LET e == Batch(f)[j]
                     cs == CallsOfElem(p, j)
                 IN /\ cs # <<>> =>
                          ParentFetchedFirst(cs, ListIdOrDefault(e), e.parentTaskId)
                    /\ ParentFetchFailed(cs) =>
                          /\ Len(cs) = 1
                          /\ \E k \in 1..Len(f.errors) : f.errors[k].elem = j
                          /\ \A k \in 1..Len(f.results) : f.results[k].elem # j

\* A batch whose first subtask was created under its parent and whose second
\* was refused at the fetch of the parent.
C21_Witness ==
    \E p \in Procs :
        /\ inv[p].op = "batchCreateSubtasks" /\ Returned(p)
        /\ Len(CallsOfElem(p, 1)) = 2 /\ Len(CallsOfElem(p, 2)) = 1
        /\ ~CallsOfElem(p, 2)[1].ok
        /\ CallsOfElem(p, 1)[2].ok /\ CallsOfElem(p, 1)[2].data.parent = 1
        /\ Len(inv[p].results) = 1 /\ Len(inv[p].errors) = 1

(***************************************************************************)
(* Properties of all the tools.                                            *)
(***************************************************************************)
\* The top-level input of a batch operation is no array, no array at all, or
\* an empty one; that of reorganizeTasks is no mapping or an empty one.
BadTopLevel(f) ==
    \/ /\ f.op \in BatchOps
       /\ \/ ArgKey(f.op) \notin DOMAIN f.args
          \/ ("notArray" \in DOMAIN f.args /\ f.args.notArray)
          \/ f.args[ArgKey(f.op)] = <<>>
    \/ /\ f.op = "reorganizeTasks"
       /\ \/ "prefixMappings" \notin DOMAIN f.args
          \/ f.args.prefixMappings = <<>>

\* The invocation ended by throwing.
Threw(p) == Returned(p) /\ inv[p].ret.kind = "thrown"

\* C22: a batch operation whose array is missing, not an array or empty, and
\* reorganizeTasks whose prefixMappings is missing or empty, throw, and no
\* remote call is issued before the throw.
C22_BadTopLevelThrowsBeforeCalls ==
    \A p \in Procs :
        BadTopLevel(inv[p]) =>
            /\ CallsOf(p) = <<>>
            /\ inv[p].pc # "start" => Threw(p)
            /\ store = initial.store /\ taskLists = initial.taskLists

\* A batch operation given an object that is not an array has thrown.
C22_Witness ==
    \E p \in Procs :
        /\ inv[p].op \in BatchOps
        /\ "notArray" \in DOMAIN inv[p].args
        /\ Threw(p) /\ calls = <<>>

\* Element j of a returned batch failed: a required field is missing, or the
\* last call issued for it did not let it through (in batchMoveTasks a failed
\* delete is a partial success, not a failure).
ElementFailed(p, j) ==
    LET f == inv[p]
        cs == CallsOfElem(p, j)
    IN \/ ElemInvalid(f.op, Batch(f)[j])
       \/ /\ cs # <<>>
          /\ ~StepPassed(f.op, cs[Len(cs)])
          /\ ~(f.op = "batchMoveTasks" /\ Len(cs) = 3)

\* The number of parts of the text with that tag.
CountParts(ret, k) == Cardinality({i \in 1..Len(ret.text) : ret.text[i].k = k})

\* Plan i of a live reorganizeTasks failed: one of its calls failed, or its
\* insert came back without an id.
PlanFailed(p, i) ==
    \E k \in 1..Len(CallsOfElem(p, i)) :
        LET c == CallsOfElem(p, i)[k] IN
        ~c.ok \/ (c.api = "tasks.insert" /\ c.data.id = 0)

\* A live reorganizeTasks whose listings of the task lists both succeeded.
LiveEnumerated(p) ==
    /\ inv[p].op = "reorganizeTasks" /\ ~BadTopLevel(inv[p]) /\ ~DryRunAsked(p)
    /\ CountApi(CallsOf(p), "tasklists.list") = 2
    /\ \A i \in 1..Len(CallsOf(p)) :
          CallsOf(p)[i].api = "tasklists.list" => CallsOf(p)[i].ok

\* C23: a batch operation given a non-empty array returns isError = false
\* however many elements fail, and a live reorganizeTasks whose enumeration
\* succeeded returns isError = false however many transfers fail; the
\* failures show in the failed count and in the itemized lines only.
C23_ElementFailuresNeverFlagError ==
    \A p \in Procs :
        LET f == inv[p] IN
        /\ (f.op \in BatchOps /\ ~BadTopLevel(f) /\ Returned(p)) =>
              LET failed == {j \in 1..Len(Batch(f)) : ElementFailed(p, j)} IN
              /\ f.ret.kind = "result" /\ ~f.ret.isError
              /\ PartValue(f.ret, "failed") = Cardinality(failed)
              /\ CountParts(f.ret, "error") = Cardinality(failed)
        /\ (LiveEnumerated(p) /\ Returned(p)) =>
              LET failed == {i \in 1..Len(f.movePlans) : PlanFailed(p, i)} IN
              /\ f.ret.kind = "result" /\ ~f.ret.isError
              /\ PartValue(f.ret, "Summary").failed = Cardinality(failed)
              /\ CountParts(f.ret, "FAILED") = Cardinality(failed)

\* A batch of MaxBatch valid elements of which every one failed.
C23_Witness ==
    \E p \in Procs :
        /\ inv[p].op \in BatchOps /\ ~BadTopLevel(inv[p]) /\ Returned(p)
        /\ Len(Batch(inv[p])) = MaxBatch
        /\ \A j \in 1..MaxBatch :
              ElementFailed(p, j) /\ ~ElemInvalid(inv[p].op, Batch(inv[p])[j])
        /\ ~inv[p].ret.isError

\* A required argument of a single-entity operation is missing.
RequiredMissing(f) ==
    LET a == f.args IN
    CASE f.op = "create" -> a.title = <<>>
      [] f.op = "update" -> a.uri = 0 \/ a.id = 0
      [] f.op = "delete" -> a.id = 0
      [] f.op = "moveTask" ->
            a.sourceTaskListId = "" \/ a.targetTaskListId = "" \/ a.taskId = 0
      [] f.op = "makeSubtask" ->
            a.taskListId = "" \/ a.taskId = 0 \/ a.parentTaskId = 0
      [] f.op = "createSubtask" -> a.parentTaskId = 0 \/ a.title = <<>>
      [] f.op = "listSubtasks" -> a.parentTaskId = 0
      [] OTHER -> FALSE

\* C24: a single-entity operation with a required argument missing throws,
\* and no remote call is issued before the throw.
C24_MissingArgumentThrowsBeforeCalls ==
    \A p \in Procs :
        RequiredMissing(inv[p]) =>
            /\ CallsOf(p) = <<>>
            /\ inv[p].pc # "start" => Threw(p) /\ inv[p].ret.template # "remote"
            /\ store = initial.store /\ taskLists = initial.taskLists

\* A delete without id has thrown.
C24_Witness ==
    \E p \in Procs :
        /\ inv[p].op = "delete" /\ inv[p].args.id = 0
        /\ Threw(p) /\ CallsOf(p) = <<>>

(***************************************************************************)
(* Properties of the resource listing.                                     *)
(***************************************************************************)
\* A listing that returned its answer.
Listed(p) ==
    /\ inv[p].op = "resources/list" /\ Returned(p)
    /\ inv[p].ret.kind = "result"

\* The pages the tasks.list calls of a listing answered with, in call order.
PagesOf(p) == SelectSeq(CallsOf(p), LAMBDA c : c.api = "tasks.list")

\* The task lists the listing was given by tasklists.list.
ListsOf(p) == CallsOf(p)[1].data.items

\* The identifiers of the tasks of the pages, one page after the other.
RECURSIVE IdsOfPages(_)
IdsOfPages(pages) ==
    IF pages = <<>> THEN <<>>
    ELSE [i \in 1..Len(pages[1].data.items) |-> pages[1].data.items[i].id]
         \o IdsOfPages(Tail(pages))

\* The last token a page came with, or NoToken when none came with one.
LastToken(pages) ==
    LET with == {i \in 1..Len(pages) : pages[i].data.nextPageToken # NoToken} IN
    IF with = {} THEN NoToken
    ELSE pages[CHOOSE i \in with : \A j \in with : j <= i].data.nextPageToken

\* The identifiers of the resources an answer holds.
ResourceIds(f) == [i \in 1..Len(f.ret.text[1].v) |-> f.ret.text[1].v[i].uri]

\* C25: TaskResources.list fetches one page from each collection in
\* collection order and returns the concatenation of the pages in that
\* order, with the last non-null nextPageToken of the pass as cursor, or
\* null when no page came with one.
C25_CursorIsLastTokenItemsConcatenated ==
    \A p \in Procs :
        Listed(p) =>
            /\ Len(PagesOf(p)) = Len(ListsOf(p))
            /\ \A i \in 1..Len(PagesOf(p)) : PagesOf(p)[i].tasklist = ListsOf(p)[i].id
            /\ ResourceIds(inv[p]) = IdsOfPages(PagesOf(p))
            /\ NextCursor(inv[p]) = LastToken(PagesOf(p))

\* A listing of two collections whose pages both came with a token.
C25_Witness ==
    \E p \in Procs :
        /\ Listed(p) /\ Len(PagesOf(p)) = 2
        /\ PagesOf(p)[1].data.nextPageToken # NoToken
        /\ PagesOf(p)[2].data.nextPageToken # NoToken
        /\ PagesOf(p)[1].data.nextPageToken # PagesOf(p)[2].data.nextPageToken
        /\ Len(ResourceIds(inv[p])) = 2 * pageSize

\* The resumption came to its end: the last listing returned a null cursor.
ResumptionEnded ==
    /\ \A p \in Procs : Listed(p)
    /\ NextCursor(inv[Len(inv)]) = NoToken

\* How many times the answers so far delivered the task.
Delivered(id) ==
    Cardinality({pi \in Procs \X (1..(2 * MaxLists * pageSize + MAX_TASK_RESULTS + 1)) :
                    /\ Listed(pi[1])
                    /\ pi[2] <= Len(ResourceIds(inv[pi[1]]))
                    /\ ResourceIds(inv[pi[1]])[pi[2]] = id})

\* C28: when the client, resuming with each returned cursor, comes to a null
\* cursor, the answers together hold every task of every task list exactly
\* once.
C28_ResumptionDeliversEachOnce ==
    ResumptionEnded =>
        \A l \in DOMAIN store : \A i \in 1..Len(store[l]) :
            Delivered(store[l][i].id) = 1

(***************************************************************************)
(* Properties of the transfers: moveTask, batchMoveTasks and the live      *)
(* reorganizeTasks.                                                         *)
(***************************************************************************)
TransferOps == {"moveTask", "batchMoveTasks", "reorganizeTasks"}

\* Only transfers are running.
Transferring == \A p \in Procs : inv[p].op \in TransferOps

\* How many tasks of a remote state carry the title.
TitleCount(st, title) ==
    Cardinality(UNION {{<<l, i>> : i \in {j \in 1..Len(st[l]) : st[l][j].title = title}} :
                          l \in DOMAIN st})

\* The titles of the tasks the run started with.
InitialTitles ==
    UNION {{initial.store[l][i].title : i \in 1..Len(initial.store[l])} :
              l \in DOMAIN initial.store}

\* Call k is a delete that follows, for the same element of the same
\* invocation, an insert that answered with the id of the copy.
DeleteFollowsInsert(k) ==
    \E j \in 1..(k - 1) :
        /\ calls[j].proc = calls[k].proc /\ calls[j].elem = calls[k].elem
        /\ calls[j].api = "tasks.insert"
        /\ calls[j].ok /\ calls[j].data.id # 0

\* C26: in a transfer the delete of the source task is issued only after
\* the insert into the destination answered with an id, so in every state
\* there are at least as many tasks of each title as at the start: no task
\* is without a copy in its source or its destination.
C26_NoTaskLostInTransfer ==
    Transferring =>
        /\ \A k \in 1..Len(calls) :
              calls[k].api = "tasks.delete" => DeleteFollowsInsert(k)
        /\ \A t \in InitialTitles : TitleCount(store, t) >= TitleCount(initial.store, t)

\* A transfer deleted the source task: it is gone from where it was.
C26_Witness ==
    /\ Transferring
    /\ \E k \in 1..Len(calls) : calls[k].api = "tasks.delete" /\ calls[k].ok
    /\ \E l \in DOMAIN initial.store : \E i \in 1..Len(initial.store[l]) :
          \A j \in 1..Len(store[l]) : store[l][j].id # initial.store[l][i].id

\* The calls of the Single-Item Transfer of moveTask, in order.
TransferApis == <<"tasks.get", "tasks.insert", "tasks.delete">>

\* The calls issued for the plan are a beginning of the moveTask sequence.
TransferCallsAsMoveTask(cs) ==
    /\ Len(cs) <= Len(TransferApis)
    /\ \A k \in 1..Len(cs) : cs[k].api = TransferApis[k]

\* moveTask reports an error exactly when the get or the insert did not pass;
\* a transfer whose delete alone failed is a partial success.
FailsAsMoveTask(cs) ==
    \E k \in 1..Len(cs) :
        /\ cs[k].api \in {"tasks.get", "tasks.insert"}
        /\ ~cs[k].ok \/ (cs[k].api = "tasks.insert" /\ cs[k].data.id = 0)
           \/ (cs[k].api = "tasks.get" /\ cs[k].data.title = <<>>)

\* C27: the transfer reorganizeTasks executes for a plan in live mode is the
\* one of moveTask: the calls for the plan are get, insert, delete in that
\* order, and the plan is reported as failed exactly when moveTask would
\* report an error (not when only the delete failed).
C27_ReorgTransferIsMoveTask ==
    \A p \in Procs :
        LiveReported(p) =>
            LET f == inv[p]
                failed == {i \in 1..Len(f.movePlans) : FailsAsMoveTask(CallsOfElem(p, i))}
            IN
            /\ \A i \in 1..Len(f.movePlans) :
                  /\ CallsOfElem(p, i) # <<>>
                  /\ TransferCallsAsMoveTask(CallsOfElem(p, i))
            /\ PartValue(f.ret, "Summary").failed = Cardinality(failed)

\* The task a transfer copies with insert call c: the one its get answered
\* with, or, in reorganizeTasks, the task of the plan.
SourceOf(c) ==
    IF inv[c.proc].op = "reorganizeTasks"
    THEN inv[c.proc].movePlans[c.elem].task
    ELSE CallsOfElem(c.proc, c.elem)[1].data

\* C29: the task a transfer inserts has exactly title, notes, due and status:
\* the title of the source task unchanged, its notes or the empty string, its
\* due or none at all, its status or needsAction; no parent is passed, so the
\* copy is a top-level task.
C29_CopyBody ==
    \A k \in 1..Len(calls) :
        LET c == calls[k] IN
        (inv[c.proc].op \in TransferOps /\ c.api = "tasks.insert") =>
            LET src == SourceOf(c) IN
            /\ DOMAIN c.body = IF src.due = "" THEN {"title", "notes", "status"}
                               ELSE {"title", "notes", "due", "status"}
            /\ c.body.title = src.title /\ c.body.title # <<>>
            /\ c.body.notes = src.notes
            /\ src.due # "" => c.body.due = src.due
            /\ c.body.status = IF src.status = "" THEN "needsAction" ELSE src.status
            /\ c.parent = 0
            /\ c.ok /\ c.data.id # 0 => c.data.parent = 0

\* A task without notes, due and status was copied.
C29_Witness ==
    \E k \in 1..Len(calls) :
        LET c == calls[k] IN
        /\ inv[c.proc].op \in TransferOps /\ c.api = "tasks.insert"
        /\ c.ok /\ c.data.id # 0
        /\ SourceOf(c).status = "" /\ SourceOf(c).due = "" /\ SourceOf(c).notes = ""
        /\ c.data.status = "needsAction"

SingleSteps(op) ==
    CASE op = "create" -> <<"tasks.insert">>
      [] op = "update" -> <<"tasks.update">>
      [] op = "delete" -> <<"tasks.delete">>
      [] op = "makeSubtask" -> <<"tasks.get", "tasks.get", "tasks.move">>
      [] op = "createSubtask" -> <<"tasks.get", "tasks.insert">>
      [] op = "listSubtasks" -> <<"tasks.list", "tasks.get">>
      [] OTHER -> <<>>

\* C31: no remote call is retried: for an element of a batch, a plan or a
\* moveTask each step is issued at most once, each task list is listed at
\* most once by an invocation, an operation on one entity issues its steps
\* once each in order, and a call that failed is the last one issued for its
\* element.
C31_NoRetry ==
    \A p \in Procs :
        LET cs == CallsOf(p) IN
        /\ \A j, k \in 1..Len(cs) :
              (j < k /\ cs[j].elem = cs[k].elem /\ cs[j].elem >= 1) =>
                  cs[j].api # cs[k].api /\ cs[j].ok
        /\ \A j, k \in 1..Len(cs) :
              (j < k /\ cs[j].api = "tasks.list" /\ cs[k].api = "tasks.list") =>
                  cs[j].tasklist # cs[k].tasklist
        /\ SingleSteps(inv[p].op) # <<>> =>
              /\ Len(cs) <= Len(SingleSteps(inv[p].op))
              /\ \A k \in 1..Len(cs) : cs[k].api = SingleSteps(inv[p].op)[k]
              /\ \A k \in 1..(Len(cs) - 1) : cs[k].ok

\* A batchMoveTasks whose first element failed at the insert, after which the
\* second element was taken up.
C31_Witness ==
    \E p \in Procs :
        /\ inv[p].op = "batchMoveTasks"
        /\ Len(CallsOfElem(p, 1)) = 2 /\ ~CallsOfElem(p, 1)[2].ok
        /\ Len(CallsOfElem(p, 2)) >= 1

(***************************************************************************)
(* The counts of the live report of reorganizeTasks.                       *)
(***************************************************************************)
\* The insert of plan i answered with an id and its delete succeeded.
PlanCarriedOut(p, i) ==
    LET cs == CallsOfElem(p, i) IN
    /\ Len(cs) = 2
    /\ cs[1].api = "tasks.insert" /\ cs[1].ok /\ cs[1].data.id # 0
    /\ cs[2].api = "tasks.delete" /\ cs[2].ok

\* The insert of plan i answered with an id and its delete failed.
PlanCopiedOnly(p, i) ==
    LET cs == CallsOfElem(p, i) IN
    /\ Len(cs) = 2
    /\ cs[1].api = "tasks.insert" /\ cs[1].ok /\ cs[1].data.id # 0
    /\ cs[2].api = "tasks.delete" /\ ~cs[2].ok

\* C32: in the report of a live reorganizeTasks the two counts add up to the
\* number of plans, the succeeded count is the number of plans whose insert
\* answered with an id and whose delete succeeded, and a plan whose delete
\* failed after such an insert is among the failed ones.
C32_CountsCoverPlans ==
    \A p \in Procs :
        LiveReported(p) =>
            LET f == inv[p]
                plans == 1..Len(f.movePlans)
                summary == PartValue(f.ret, "Summary")
            IN
            /\ summary.succeeded + summary.failed = Len(f.movePlans)
            /\ summary.succeeded = Cardinality({i \in plans : PlanCarriedOut(p, i)})
            /\ summary.failed >= Cardinality({i \in plans : PlanCopiedOnly(p, i)})
            /\ summary.succeeded = f.successCount /\ summary.failed = f.failureCount

\* A live report over MaxTasks plans, of which one was copied and not deleted
\* and one was carried out.
C32_Witness ==
    \E p \in Procs :
        /\ LiveReported(p) /\ Len(inv[p].movePlans) = MaxTasks
        /\ \E i \in 1..MaxTasks : PlanCopiedOnly(p, i)
        /\ \E i \in 1..MaxTasks : PlanCarriedOut(p, i)

(***************************************************************************)
(* Properties of two invocations in flight at once.                        *)
(***************************************************************************)
\* The calls of the two invocations are interleaved in the history.
Interleaved ==
    \E i, j, k \in 1..Len(calls) :
        i < j /\ j < k /\ calls[i].proc = calls[k].proc /\ calls[j].proc # calls[i].proc

\* The entries of the partitions of a batch frame are entries for elements of
\* its own input, at most one for each.
OwnEntries(f) ==
    /\ \A j \in Elems(f.results) \cup Elems(f.errors) \cup Elems(f.warnings) :
          j \in 1..Len(Batch(f)) /\ j < f.idx + 1
    /\ \A j \in 1..Len(Batch(f)) : EntriesFor(f, j) <= 1
    /\ \A i \in 1..Len(f.errors) : f.errors[i].data = Batch(f)[f.errors[i].elem]
    /\ \A i \in 1..Len(f.warnings) : f.warnings[i].moveData = Batch(f)[f.warnings[i].elem]
    /\ f.op = "batchMoveTasks" =>
          \A i \in 1..Len(f.results) :
              f.results[i].originalTaskId = Batch(f)[f.results[i].elem].taskId

\* The lines and counters of a live reorganizeTasks frame are those of its
\* own plans gone through so far.
OwnCounters(f) ==
    LET done == IF f.pc = "done" THEN Len(f.movePlans) ELSE f.idx - 1 IN
    f.pc \in {"insert", "delete", "done"} /\ f.ret.kind # "thrown" /\ ~DryRun(f.args) =>
        /\ f.successCount + f.failureCount = done
        /\ \A i \in 1..Len(f.results) :
              f.results[i].k \in {"Moved", "FAILED"} =>
                  \E j \in 1..Len(f.movePlans) :
                      f.results[i].v.title = f.movePlans[j].task.title

\* C33: with two batch or reorganize invocations interleaving at their remote
\* calls, the results, errors, warnings and counters of each hold entries
\* only for elements of its own input, and when it returns its report the
\* sizes of its partitions add up to the length of its own input.
C33_InvocationsShareNoLocals ==
    \A p \in Procs :
        LET f == inv[p] IN
        /\ (f.op \in BatchOps /\ f.pc # "start" /\ f.ret.kind # "thrown") => OwnEntries(f)
        /\ BatchReported(p) =>
              Len(f.results) + Len(f.errors) + Len(f.warnings) = Len(Batch(f))
        /\ f.op = "reorganizeTasks" => OwnCounters(f)
        /\ LiveReported(p) =>
              PartValue(f.ret, "Summary").succeeded + PartValue(f.ret, "Summary").failed
                 = Len(f.movePlans)

\* Two batches whose calls interleaved have both returned their reports, the
\* first with an entry in results.
C33_Witness ==
    /\ \A p \in Procs : BatchReported(p)
    /\ Cardinality(Procs) = 2
    /\ Interleaved
    /\ \A p \in Procs : Len(inv[p].results) + Len(inv[p].errors) > 1
    /\ inv[1].results # <<>>

\* The moveTask returned the outcome of a complete move.
Moved(p) ==
    /\ inv[p].op = "moveTask" /\ Returned(p)
    /\ inv[p].ret.kind = "result" /\ ~inv[p].ret.isError
    /\ inv[p].ret.template = "moved from list to list"

\* The moveTask returned an error, or that the task was copied and not deleted.
NotMoved(p) ==
    /\ inv[p].op = "moveTask" /\ Returned(p)
    /\ \/ inv[p].ret.isError
       \/ inv[p].ret.template = "was copied to list but could not be deleted from source list"

\* C34: of two moveTask invocations for the same task that interleave at
\* their remote calls, at most one returns the outcome of a complete move;
\* once both have returned, the other one has returned an error or the
\* partial success.
C34_AtMostOneMoved ==
    \A p, q \in Procs :
        (p # q /\ inv[p].op = "moveTask" /\ inv[q].op = "moveTask"
              /\ inv[p].args = inv[q].args) =>
            /\ ~(Moved(p) /\ Moved(q))
            /\ (Moved(p) /\ Returned(q)) => NotMoved(q)

\* Both fetched the task before either deleted it: one moved it, the other
\* copied it again and could not delete it.
C34_Witness ==
    \E p, q \in Procs :
        /\ p # q /\ inv[p].args = inv[q].args
        /\ Moved(p)
        /\ NotMoved(q) /\ ~inv[q].ret.isError
        /\ Len(store["B"]) = 2

(***************************************************************************)
(* The dry run against the live run of the same request.                   *)
(***************************************************************************)
\* The dry run has reported and the live run has made its plans, both from
\* the same answers to their list calls.
SameListing ==
    /\ Len(inv) = 2
    /\ DryRunAsked(1) /\ Planned(1) /\ Planned(2)
    /\ inv[1].allTasks = inv[2].allTasks
    /\ inv[1].lists = inv[2].lists

\* The lines of the dry-run report that name a task to move.
PlanLines(f) == SelectSeq(f.ret.text, LAMBDA l : l.k = "plan")

\* The inserts the live run issued, in order.
InsertsOf(p) == SelectSeq(CallsOf(p), LAMBDA c : c.api = "tasks.insert")

\* C35: from the same answers to the list calls and the same mapping,
\* reorganizeTasks makes the same plans in the same order with dryRun as
\* without, and the tasks the dry-run report lists are, in order, the tasks
\* the live run attempts to transfer.
C35_DryRunPlansAsLive ==
    SameListing =>
        /\ inv[1].movePlans = inv[2].movePlans
        /\ Len(InsertsOf(2)) <= Len(PlanLines(inv[1]))
        /\ \A i \in 1..Len(InsertsOf(2)) :
              /\ InsertsOf(2)[i].elem = i
              /\ InsertsOf(2)[i].body.title = PlanLines(inv[1])[i].v.title
        /\ Returned(2) => Len(InsertsOf(2)) = Len(PlanLines(inv[1]))

\* Both runs planned MaxTasks transfers, and the live run attempted them.
C35_Witness ==
    /\ SameListing /\ Returned(2)
    /\ Len(PlanLines(inv[1])) = MaxTasks
    /\ Len(InsertsOf(2)) = MaxTasks

(***************************************************************************)
(* Properties of the reading of one resource.                              *)
(***************************************************************************)
\* A read whose listing of the task lists was answered.
Reading(p) ==
    /\ inv[p].op = "resources/read"
    /\ CallsOf(p) # <<>> /\ CallsOf(p)[1].ok

\* The gets of a read, in call order.
ProbesOf(p) == SelectSeq(CallsOf(p), LAMBDA c : c.api = "tasks.get")

\* C36: TaskResources.read asks the task lists for the task in the order the
\* remote returned them, goes on to the next one only after a get failed,
\* returns the task of the first get that succeeds without asking any later
\* list, and throws 'Task not found' exactly when the get failed in every
\* list.
C36_ReadProbesInOrder ==
    \A p \in Procs :
        Reading(p) =>
            LET probes == ProbesOf(p)
                lists == ListsOf(p)
                found == probes # <<>> /\ probes[Len(probes)].ok
            IN
            /\ Len(probes) <= Len(lists)
            /\ \A k \in 1..Len(probes) : probes[k].tasklist = lists[k].id
            /\ \A k \in 1..(Len(probes) - 1) : ~probes[k].ok
            /\ found => /\ Returned(p) /\ inv[p].ret.kind = "result"
                        /\ PartValue(inv[p].ret, "task") = probes[Len(probes)].data
            /\ Returned(p) =>
                  /\ inv[p].ret.kind = "thrown" <=> ~found
                  /\ ~found => /\ inv[p].ret.template = "Task not found"
                               /\ Len(probes) = Len(lists)

\* The task was found in the last of MaxLists + 1 task lists, after the gets
\* in the lists before it failed.
C36_Witness ==
    \E p \in Procs :
        /\ Reading(p) /\ Returned(p) /\ inv[p].ret.kind = "result"
        /\ Len(ProbesOf(p)) = MaxLists + 1

(***************************************************************************)
(* Termination and the number of remote calls.                             *)
(***************************************************************************)
\* The operations the termination property is about.
BoundedOps == BatchOps \cup {"moveTask", "makeSubtask", "createSubtask", "reorganizeTasks"}

\* The number of tasks of a remote state.
TaskCount(st) ==
    Cardinality(UNION {{<<l, i>> : i \in 1..Len(st[l])} : l \in DOMAIN st})

\* The most calls an invocation may issue: three for each element of a batch
\* and for a transfer or a reparenting, two for a subtask; for
\* reorganizeTasks the two listings of the task lists, one listing for each
\* task list and two calls for each task there is.
CallLimit(f) ==
    CASE f.op \in BatchOps -> IF BadTopLevel(f) THEN 0 ELSE 3 * Len(Batch(f))
      [] f.op \in {"moveTask", "makeSubtask"} -> 3
      [] f.op = "createSubtask" -> 2
      [] f.op = "reorganizeTasks" ->
            2 + Len(initial.taskLists) + 2 * TaskCount(initial.store)
      [] OTHER -> 0

\* No invocation has issued more calls than its limit.
CallsBounded ==
    \A p \in Procs : inv[p].op \in BoundedOps => Len(CallsOf(p)) <= CallLimit(inv[p])

\* Every invocation has returned a result or thrown.
AllReturned ==
    \A p \in Procs :
        inv[p].op \in BoundedOps => Returned(p) /\ inv[p].ret.kind \in {"result", "thrown"}

\* C37: with every remote call answered in the end, every invocation of a
\* batch operation, moveTask, makeSubtask, createSubtask and reorganizeTasks
\* returns a result or throws in the end, and at no time has it issued more
\* remote calls than a fixed multiple of its input size (for reorganizeTasks,
\* of the tasks, plus the task lists).
C37_TerminatesWithBoundedCalls == []CallsBounded /\ <>AllReturned

\* A batchMoveTasks of MaxBatch elements returned after three calls for each.
C37_Witness ==
    \E p \in Procs :
        /\ inv[p].op = "batchMoveTasks" /\ Returned(p)
        /\ ~BadTopLevel(inv[p])
        /\ Len(Batch(inv[p])) = MaxBatch
        /\ Len(CallsOf(p)) = CallLimit(inv[p])

====
